---------------------------- MODULE Spec2Model ----------------------------
(***************************************************************************)
(* Model of the QuillBot browser-automation helpers:                       *)
(*   - safePageOperation, the retry wrapper (src/lib/utils.js, and its     *)
(*     copy in src/index.js);                                              *)
(*   - getInputSelector / getButtonSelector, the selector resolvers        *)
(*     (src/index.js, src/README.md, src/unnamed/part_000);                *)
(*   - truncate and the splitting loop of quillbot / paraphraser           *)
(*     (src/index.js, src/README.md);                                      *)
(*   - getInputContent and inputString, the text injection                 *)
(*     (src/lib/utils.js, and their copies in src/index.js);               *)
(*   - paraphraser, translator and quillbot, the top-level calls, with     *)
(*     setupBrowser and closeBrowser (src/README.md, src/unnamed/part_000, *)
(*     src/index.js, src/lib/utils.js);                                    *)
(*   - submitForm with the click and waitForFormSubmission /               *)
(*     waitForTranslation (src/README.md, src/index.js,                    *)
(*     src/unnamed/part_000);                                              *)
(*   - saveHTMLForDebug (src/lib/utils.js, and its copy in src/index.js);  *)
(*   - getLanguageCode and the URL of translator (src/unnamed/part_000);   *)
(*   - two top-level calls in flight together.                             *)
(* Strings the code inspects character by character (error messages, the   *)
(* text to split) are sequences of one-character strings.                  *)
(***************************************************************************)
EXTENDS Integers, Sequences, FiniteSets, TLC

VARIABLES
    site,       \* which function is running: "direct" (safePageOperation called
                \* on an arbitrary operation), "input", "button" (a resolver), "split",
                \* "call", "inject", "submit", "snapshot", "concurrent", "synonyms"
    xpc,        \* safePageOperation: "idle", "loop", "wait", "probe", "returned", "threw"
    xi,         \* safePageOperation: the loop counter i
    xretries,   \* safePageOperation: the argument retries
    xpageRef,   \* safePageOperation: TRUE iff pageRef is a page (has a url function)
    lastError,  \* safePageOperation: lastError ("" is null)
    xresult,    \* safePageOperation: the value returned or the error thrown
    log,        \* what has happened at the page and the timer, in order
    dom,        \* resolver: per candidate, "absent", "hidden" or "visible"
    idx,        \* resolver: position in the candidate list (1-based)
    rpc,        \* resolver: "idle", "next", "query", "done", "threw"
    rresult,    \* resolver: 0 is null, c > 0 is the c-th selector of the list
    queried,    \* resolver: per candidate, the number of safePageOperation calls made for it
    limit,      \* splitter: the word limit (NUMBER_OF_CHARACTERS in the code)
    text,       \* splitter: the argument text
    str,        \* splitter: the local str
    parts,      \* splitter: the local parts
    spc,        \* splitter: "idle", "start", "loop", "done", "threw"
    imodule,    \* inputString: the file whose copy runs, "lib/utils.js" or "index.js"
    ipc,        \* inputString: "idle", "direct", "read", "paste", "returned", "threw"
    istep,      \* inputString: position in the steps of the method under way (1-based)
    itext,      \* inputString: the argument text
    icontent,   \* inputString: the local inputContent (NotRead before the read-back)
    tool,       \* top-level call: "paraphraser", "translator" or "quillbot"
    cpc,        \* top-level call: the step the call is at
    headless,   \* top-level call: options.headless, "unset", "new", "false" or "true"
    success,    \* top-level call: options._success
    isDev,      \* top-level call: the local isDev of the try block
    launched,   \* the number of browsers puppeteer.launch has started
    pages,      \* the number of pages opened in them
    browser,    \* top-level call: TRUE iff the local browser is assigned
    page,       \* top-level call: TRUE iff the local page is assigned
    seg,        \* top-level call: the segment under way (i + 1 of the for loop)
    output,     \* top-level call: the local output
    completion, \* top-level call: the value of the return under way (Pending if none)
    closes,     \* the number of calls of browser.close()
    settled,    \* top-level call: how the returned promise has settled
    ftool,      \* submitForm: the tool whose copy runs
    buttonSelector, \* submitForm: the argument, "null", "css" or "xpath"
    fpc,        \* submitForm: "idle", "click", the wait under way, "returned"
    fstrategy,  \* waitForFormSubmission: the number of the approach under way
    isClicked,  \* submitForm: the local isClicked ("unset" before the click)
    fresult,    \* submitForm: the value returned ("none" before the return)
    dIsDev,     \* saveHTMLForDebug: the argument isDev
    dPage,      \* saveHTMLForDebug: TRUE iff the argument page is a page
    dpc,        \* saveHTMLForDebug: "idle", "called", "read", "save", "returned", "threw"
    debugDir,   \* TRUE iff the directory debug-html exists
    snapshots,  \* the number of calls of saveHTMLForDebug made so far
    sourceLanguage, \* translator: options.sourceLanguage (Null if not given)
    targetLanguage, \* translator: options.targetLanguage (Null if not given)
    urlParams,  \* translator: the parameters sl and tl of the URL ("" if not set)
    inflight,   \* concurrent calls: per call, its position and its locals browser and page
    world,      \* concurrent calls: the browsers and pages there are, who launched
                \* them, who has operated on them and who has closed them
    value,      \* selectSynonymsLevel: the argument value
    sanitizedValue, \* selectSynonymsLevel: the local sanitizedValue (NotSanitized before)
    ypc         \* selectSynonymsLevel: "idle", "entered", "evaluate", "returned"

vars == <<site, xpc, xi, xretries, xpageRef, lastError, xresult, log,
          dom, idx, rpc, rresult, queried, limit, text, str, parts, spc,
          imodule, ipc, istep, itext, icontent,
          tool, cpc, headless, success, isDev, launched, pages, browser, page, seg,
          output, completion, closes, settled,
          ftool, buttonSelector, fpc, fstrategy, isClicked, fresult,
          dIsDev, dPage, dpc, debugDir, snapshots,
          sourceLanguage, targetLanguage, urlParams, inflight, world,
          value, sanitizedValue, ypc>>

xvars == <<xpc, xi, xretries, xpageRef, lastError, xresult>>
rvars == <<dom, idx, rpc, rresult, queried>>
svars == <<limit, text, str, parts, spc>>
ivars == <<imodule, ipc, istep, itext, icontent>>
cvars == <<tool, cpc, headless, success, isDev, launched, pages, browser, page, seg,
           output, completion, closes, settled>>
fvars == <<ftool, buttonSelector, fpc, fstrategy, isClicked, fresult>>

dvars == <<dIsDev, dPage, dpc, debugDir, snapshots>>

yvars == <<value, sanitizedValue, ypc>>

\* the variables of the functions modelled after the calls above
ovars == <<fvars, dvars, sourceLanguage, targetLanguage, urlParams, inflight, world, yvars>>

-----------------------------------------------------------------------------
(* Bounds *)

\* the largest retry budget a direct call is given
MaxRetries == 3

\* the longest candidate list a resolver is given
MaxCandidates == 3

\* the longest text given to the splitter, in characters
MaxLen == 6

\* the largest word limit the splitter is run with; the code's limit is
\* NUMBER_OF_CHARACTERS = 125, and truncate and the loop are written for any limit
MaxWordLimit == 2

\* the number of segments after which the splitting loop is no longer followed
MaxParts == 5

-----------------------------------------------------------------------------
(* Error messages *)

\* the characters of the error messages and of the substrings they are searched for
Chars(s) ==
  CASE s = "Node is detached from document" ->
       <<"N","o","d","e"," ","i","s"," ","d","e","t","a","c","h","e","d"," ","f","r","o","m"," ","d","o","c","u","m","e","n","t">>
    [] s = "Target closed" ->
       <<"T","a","r","g","e","t"," ","c","l","o","s","e","d">>
    [] s = "Session closed" ->
       <<"S","e","s","s","i","o","n"," ","c","l","o","s","e","d">>
    [] s = "Protocol error" ->
       <<"P","r","o","t","o","c","o","l"," ","e","r","r","o","r">>
    [] s = "Navigating frame" ->
       <<"N","a","v","i","g","a","t","i","n","g"," ","f","r","a","m","e">>
    [] s = "target closed" ->
       <<"t","a","r","g","e","t"," ","c","l","o","s","e","d">>
    [] s = "Timeout exceeded" ->
       <<"T","i","m","e","o","u","t"," ","e","x","c","e","e","d","e","d">>
    [] s = "Page is no longer accessible" ->
       <<"P","a","g","e"," ","i","s"," ","n","o"," ","l","o","n","g","e","r"," ","a","c","c","e","s","s","i","b","l","e">>
    [] s = "Operation failed after retries" ->
       <<"O","p","e","r","a","t","i","o","n"," ","f","a","i","l","e","d"," ","a","f","t","e","r"," ","r","e","t","r","i","e","s">>
    [] s = "detached" ->
       <<"d","e","t","a","c","h","e","d">>
    [] s = "closed" ->
       <<"c","l","o","s","e","d">>

\* String.prototype.includes: pat occurs in msg as a contiguous run of characters
Includes(msg, pat) ==
    \E k \in 0..(Len(Chars(msg)) - Len(Chars(pat))) :
        SubSeq(Chars(msg), k + 1, k + Len(Chars(pat))) = Chars(pat)

\* messages of the errors an operation on the page can throw
OpMessages ==
    {"Node is detached from document", "Target closed", "Session closed",
     "Protocol error", "Navigating frame", "target closed", "Timeout exceeded"}

\* the errors thrown at a resolver's query: one the wrapper retries, one it does not
PageMessages == {"Node is detached from document", "Timeout exceeded"}

PageInaccessible == "Page is no longer accessible"
FailedAfterRetries == "Operation failed after retries"

-----------------------------------------------------------------------------
(* safePageOperation *)

Ok(v) == [kind |-> "ok", val |-> v, msg |-> ""]
Err(m) == [kind |-> "err", val |-> FALSE, msg |-> m]
NoResult == [kind |-> "none", val |-> FALSE, msg |-> ""]

CallEv(c, i, out) == [ev |-> "call", cand |-> c, i |-> i, out |-> out, ms |-> 0]
WaitEv(c, i, ms) == [ev |-> "wait", cand |-> c, i |-> i, out |-> NoResult, ms |-> ms]
ProbeEv(c, i, out) == [ev |-> "probe", cand |-> c, i |-> i, out |-> out, ms |-> 0]

isDetachedErrorLoose(m) ==
    \/ Includes(m, "detached")
    \/ Includes(m, "closed")
    \/ Includes(m, "Protocol error")
    \/ Includes(m, "Navigating frame")

\* const isDetachedError = error.message.includes(...) || ...
isDetachedError(m) ==
    \/ Includes(m, "detached")
    \/ Includes(m, "Target closed")
    \/ Includes(m, "Session closed")
    \/ Includes(m, "Protocol error")
    \/ Includes(m, "Navigating frame")

RetriesRemainOffByOne(i, retries) == i < retries

\* for (let i = 0; i < retries; i++): the loop condition, and a variant that
\* would run the body once more
loopConditionInclusive(i, retries) == i <= retries

loopCondition(i, retries) == i < retries

\* i < retries - 1
RetriesRemain(i, retries) == i < retries - 1

waitTimeFlat(i) == 2000

\* const waitTime = 2000 * (i + 1)
waitTime(i) == 2000 * (i + 1)

\* if (pageRef && typeof pageRef.url === 'function')
Probes(pageRef) == pageRef

ProbeFailureIgnored(i) == [pc |-> "loop", i |-> i + 1, result |-> NoResult]

\* catch (urlError) { throw new Error('Page is no longer accessible') }
ProbeFailure(i) == [pc |-> "threw", i |-> i, result |-> Err(PageInaccessible)]

\* safePageOperation(..., 2, page) in getInputSelector
InputRetries == 2

\* retries = 3, the default, in getButtonSelector
DefaultRetries == 3

inputExistsNoVisibility(c) == dom[c] # "absent"

\* getInputSelector's operation: page.$(selector) finds an element and the
\* evaluated style/geometry test says it is visible
inputExists(c) == dom[c] = "visible"

buttonExistsVisible(c) == dom[c] = "visible"

\* getButtonSelector's operation: elements.length > 0, or page.$(selector) !== null
buttonExists(c) == dom[c] # "absent"

FoundKeepsLooking(c) == [rpc |-> "next", idx |-> c + 1, rresult |-> c]

\* if (exists) { return selector }
Found(c) == [rpc |-> "done", idx |-> c, rresult |-> c]

CatchesDetachedOnly(m) == Includes(m, "detached")

\* try { ... } catch (error) { /* try next selector */ }
Catches(m) == TRUE

\* saveHTMLForDebug's operation, the test of its catch block:
\* error.message.includes('Target closed') || ...('detached') || ...('Session closed')
closedOrDetached(m) ==
    \/ Includes(m, "Target closed")
    \/ Includes(m, "detached")
    \/ Includes(m, "Session closed")

\* saveHTMLForDebug's operation: page.content() returns the markup (TRUE), or
\* it throws and the error is turned into null (FALSE) or thrown again
pageContent(raw) ==
    IF raw.kind = "err" /\ closedOrDetached(raw.msg) THEN Ok(FALSE) ELSE raw

\* what the operation passed to safePageOperation can do when it is invoked
OpOutcomes ==
    CASE site = "direct" ->
            {Ok(v) : v \in BOOLEAN} \cup {Err(m) : m \in OpMessages}
      [] site = "input" ->
            {Ok(inputExists(idx))} \cup {Err(m) : m \in PageMessages}
      [] site = "button" ->
            {Ok(buttonExists(idx))} \cup {Err(m) : m \in PageMessages}
      [] site = "snapshot" ->
            {pageContent(raw) : raw \in {Ok(TRUE)} \cup {Err(m) : m \in OpMessages}}
      [] OTHER -> {}

\* the candidate a page access is made for (0 in a direct call)
Cand == IF site \in {"input", "button"} THEN idx ELSE 0

\* one iteration of the for loop up to the first await that is not the operation:
\* the operation is invoked; it returns, or its error is classified
Attempt ==
    /\ xpc = "loop"
    /\ loopCondition(xi, xretries)
    /\ \E out \in OpOutcomes :
          /\ log' = Append(log, CallEv(Cand, xi, out))
          /\ IF out.kind = "ok"
               THEN /\ xpc' = "returned"
                    /\ xresult' = out
                    /\ UNCHANGED lastError
               ELSE /\ lastError' = out.msg
                    /\ IF isDetachedError(out.msg) /\ RetriesRemain(xi, xretries)
                         THEN xpc' = "wait" /\ UNCHANGED xresult
                         ELSE xpc' = "threw" /\ xresult' = out
    /\ UNCHANGED <<site, ovars, ivars, cvars, xi, xretries, xpageRef, rvars, svars>>

\* await wait(waitTime); then the probe if there is a page, else the next iteration
Backoff ==
    /\ xpc = "wait"
    /\ log' = Append(log, WaitEv(Cand, xi, waitTime(xi)))
    /\ IF Probes(xpageRef)
         THEN xpc' = "probe" /\ UNCHANGED xi
         ELSE xpc' = "loop" /\ xi' = xi + 1
    /\ UNCHANGED <<site, ovars, ivars, cvars, xretries, xpageRef, lastError, xresult, rvars, svars>>

\* await pageRef.url(): it returns and the loop continues, or it throws
Probe ==
    /\ xpc = "probe"
    /\ \E ok \in BOOLEAN :
          /\ log' = Append(log, ProbeEv(Cand, xi, IF ok THEN Ok(TRUE) ELSE Err("Target closed")))
          /\ IF ok
               THEN /\ xpc' = "loop"
                    /\ xi' = xi + 1
                    /\ UNCHANGED xresult
               ELSE /\ xpc' = ProbeFailure(xi).pc
                    /\ xi' = ProbeFailure(xi).i
                    /\ xresult' = ProbeFailure(xi).result
    /\ UNCHANGED <<site, ovars, ivars, cvars, xretries, xpageRef, lastError, rvars, svars>>

\* the loop ends without a return or a throw:
\* throw lastError || new Error('Operation failed after retries')
LoopExit ==
    /\ xpc = "loop"
    /\ ~loopCondition(xi, xretries)
    /\ xpc' = "threw"
    /\ xresult' = Err(IF lastError # "" THEN lastError ELSE FailedAfterRetries)
    /\ UNCHANGED <<site, ovars, ivars, cvars, xi, xretries, xpageRef, lastError, log, rvars, svars>>

ExecNext == Attempt \/ Backoff \/ Probe \/ LoopExit

\* safePageOperation(operation, retries, pageRef) is entered
ExecEntry(retries, pageRef) ==
    /\ xpc = "loop"
    /\ xi = 0
    /\ xretries = retries
    /\ xpageRef = pageRef
    /\ lastError = ""
    /\ xresult = NoResult

RIdle ==
    /\ dom = <<>>
    /\ idx = 0
    /\ rpc = "idle"
    /\ rresult = 0
    /\ queried = <<>>

SIdle ==
    /\ limit = 0
    /\ text = <<>>
    /\ str = <<>>
    /\ parts = <<>>
    /\ spc = "idle"

\* null, where a string is expected: no string of characters equals it
Null == <<"null">>

\* inputContent before getInputContent has been called
NotRead == <<"not read">>

\* no return is under way, or the promise has not settled
Pending == <<"pending">>

\* the promise was rejected
Rejected == <<"rejected">>

IIdle ==
    /\ imodule = "none"
    /\ ipc = "idle"
    /\ istep = 0
    /\ itext = <<>>
    /\ icontent = NotRead

FIdle ==
    /\ ftool = "none"
    /\ buttonSelector = "null"
    /\ fpc = "idle"
    /\ fstrategy = 0
    /\ isClicked = "unset"
    /\ fresult = "none"

DIdle ==
    /\ dIsDev = FALSE
    /\ dPage = FALSE
    /\ dpc = "idle"
    /\ debugDir = FALSE
    /\ snapshots = 0

\* no parameter of the URL is set
NoParams == [sl |-> "", tl |-> ""]

\* no language is given
LIdle ==
    /\ sourceLanguage = Null
    /\ targetLanguage = Null
    /\ urlParams = NoParams

\* no browser was launched and no page opened
NoSessions == [launchedBy |-> <<>>, pageIn |-> <<>>, usedBy |-> <<>>, closedBy |-> <<>>]

\* no two calls are in flight together
KIdle ==
    /\ inflight = <<>>
    /\ world = NoSessions

\* selectSynonymsLevel: sanitizedValue is not assigned
NotSanitized == 0 - 1

\* selectSynonymsLevel is not running
YIdle ==
    /\ value = <<>>
    /\ sanitizedValue = NotSanitized
    /\ ypc = "idle"

\* none of the functions modelled after the calls is running
OIdle == FIdle /\ DIdle /\ LIdle /\ KIdle /\ YIdle

CIdle ==
    /\ tool = "none"
    /\ cpc = "idle"
    /\ headless = "unset"
    /\ success = FALSE
    /\ isDev = FALSE
    /\ launched = 0
    /\ pages = 0
    /\ browser = FALSE
    /\ page = FALSE
    /\ seg = 0
    /\ output = <<>>
    /\ completion = Pending
    /\ closes = 0
    /\ settled = Pending

\* a call safePageOperation(operation, retries, pageRef) on an arbitrary operation
InitExec ==
    /\ site = "direct"
    /\ log = <<>>
    /\ \E r \in (-1)..MaxRetries, p \in BOOLEAN : ExecEntry(r, p)
    /\ RIdle
    /\ SIdle
    /\ IIdle
    /\ CIdle
    /\ OIdle

SpecExec == InitExec /\ [][ExecNext]_vars

-----------------------------------------------------------------------------
(* getInputSelector and getButtonSelector *)

\* the for loop reaches a selector: safePageOperation is called for it
ResolverQuery ==
    /\ rpc = "next"
    /\ idx <= Len(dom)
    /\ rpc' = "query"
    /\ queried' = [queried EXCEPT ![idx] = @ + 1]
    /\ xpc' = "loop"
    /\ xi' = 0
    /\ xretries' = IF site = "input" THEN InputRetries ELSE DefaultRetries
    /\ xpageRef' = (site = "input")
    /\ lastError' = ""
    /\ xresult' = NoResult
    /\ UNCHANGED <<site, ovars, ivars, cvars, log, dom, idx, rresult, svars>>

\* safePageOperation has returned: exists decides between return and the next selector
ResolverReturned ==
    /\ rpc = "query"
    /\ xpc = "returned"
    /\ xpc' = "idle"
    /\ IF xresult.val
         THEN /\ rpc' = Found(idx).rpc
              /\ idx' = Found(idx).idx
              /\ rresult' = Found(idx).rresult
         ELSE /\ rpc' = "next"
              /\ idx' = idx + 1
              /\ UNCHANGED rresult
    /\ UNCHANGED <<site, ovars, ivars, cvars, xi, xretries, xpageRef, lastError, xresult, log, dom, queried, svars>>

\* safePageOperation has thrown: the catch block goes on to the next selector
ResolverCaught ==
    /\ rpc = "query"
    /\ xpc = "threw"
    /\ xpc' = "idle"
    /\ IF Catches(xresult.msg)
         THEN rpc' = "next" /\ idx' = idx + 1
         ELSE rpc' = "threw" /\ UNCHANGED idx
    /\ UNCHANGED <<site, ovars, ivars, cvars, xi, xretries, xpageRef, lastError, xresult, log, dom, rresult, queried, svars>>

exhaustedThrows == "threw"

\* after the for loop: console.error(...); return null
exhausted == "done"

\* the list is exhausted: console.error(...); return null
ResolverExhausted ==
    /\ rpc = "next"
    /\ idx > Len(dom)
    /\ rpc' = exhausted
    /\ rresult' = 0
    /\ UNCHANGED <<site, ovars, ivars, cvars, xvars, log, dom, idx, queried, svars>>

\* a resolver's budgets are 2 and 3, so the loop of safePageOperation is never
\* left without a return or a throw and LoopExit has no part in it
ResolverNext ==
    \/ ResolverQuery
    \/ ResolverReturned
    \/ ResolverCaught
    \/ ResolverExhausted
    \/ Attempt
    \/ Backoff
    \/ Probe

XIdle ==
    /\ xpc = "idle"
    /\ xi = 0
    /\ xretries = 0
    /\ xpageRef = FALSE
    /\ lastError = ""
    /\ xresult = NoResult

\* a resolver is entered with the page in some state: each selector of its list
\* matches no element, a hidden element or a visible one
InitResolver ==
    /\ site \in {"input", "button"}
    /\ log = <<>>
    /\ XIdle
    /\ \E n \in 1..MaxCandidates :
          /\ dom \in [1..n -> {"absent", "hidden", "visible"}]
          /\ queried = [c \in 1..n |-> 0]
    /\ idx = 1
    /\ rpc = "next"
    /\ rresult = 0
    /\ SIdle
    /\ IIdle
    /\ CIdle
    /\ OIdle

SpecResolver == InitResolver /\ [][ResolverNext]_vars

\* the lists of candidates in the code, with the number of their selectors
CandidateLists ==
    << [list |-> "paraphraser getInputSelector inputSelectors", len |-> 14],
       [list |-> "paraphraser getButtonSelector buttonSelectors", len |-> 9],
       [list |-> "paraphraser paraphraserElementCheck selectors", len |-> 8],
       [list |-> "translator getInputSelector inputSelectors", len |-> 7],
       [list |-> "translator getButtonSelector buttonSelectors", len |-> 6],
       [list |-> "translator translatorElementCheck selectors", len |-> 4],
       [list |-> "translator alternativeSelectors", len |-> 4],
       [list |-> "quillbot getInputSelector inputSelectors", len |-> 14],
       [list |-> "quillbot getButtonSelector buttonSelectors", len |-> 9],
       [list |-> "quillbot waitForFunction selectors", len |-> 8] >>

\* the loop of a resolver run on a list of any length, the empty list included
\* (no list of the code is empty)
InitResolverAny ==
    /\ site \in {"input", "button"}
    /\ log = <<>>
    /\ XIdle
    /\ \E n \in 0..MaxCandidates :
          /\ dom \in [1..n -> {"absent", "hidden", "visible"}]
          /\ queried = [c \in 1..n |-> 0]
    /\ idx = 1
    /\ rpc = "next"
    /\ rresult = 0
    /\ SIdle
    /\ IIdle
    /\ CIdle
    /\ OIdle

SpecResolverAny == InitResolverAny /\ [][ResolverNext]_vars

-----------------------------------------------------------------------------
(* truncate and the splitting loop *)

\* the characters of a text: two letters (\w), the apostrophe, the period,
\* the space and the line feed
Alphabet == {"a", "b", "'", ".", " ", "\n"}

\* \w
isWordChar(ch) == ch \in {"a", "b"}

\* [\w']
isTokenChar(ch) == isWordChar(ch) \/ ch = "'"

\* [^\w\n]
isSeparatorChar(ch) == ~isWordChar(ch) /\ ch # "\n"

\* white space, as String.prototype.trim removes it
isWhiteSpace(ch) == ch \in {" ", "\n"}

\* String.prototype.slice(from), from counted from 0
sliceFrom(s, from) == SubSeq(s, from + 1, Len(s))

\* String.prototype.slice(0, to)
sliceTo(s, to) == SubSeq(s, 1, to)

\* String.prototype.trim
trim(s) ==
    LET black == {p \in 1..Len(s) : ~isWhiteSpace(s[p])}
    IN  IF black = {} THEN <<>>
        ELSE SubSeq(s, CHOOSE p \in black : \A q \in black : p <= q,
                       CHOOSE p \in black : \A q \in black : p >= q)

\* the starts of the matches of /(\w+)/g: the first characters of the runs of \w
wordStarts(s) ==
    {p \in 1..Len(s) : isWordChar(s[p]) /\ (p = 1 \/ ~isWordChar(s[p - 1]))}

\* str.match(/(\w+)/g): the number of matches; 0 stands for null
matchCount(s) == Cardinality(wordStarts(s))

\* \b at offset q of s (between s[q] and s[q + 1])
wordBoundary(s, q) ==
    (q >= 1 /\ isWordChar(s[q])) # (q < Len(s) /\ isWordChar(s[q + 1]))

\* the end of the longest run of [\w'] that starts at offset q
tokenRunEnd(s, q) ==
    CHOOSE e \in q..Len(s) :
        /\ \A p \in (q + 1)..e : isTokenChar(s[p])
        /\ (e = Len(s) \/ ~isTokenChar(s[e + 1]))

\* the end of the longest run of [^\w\n] that starts at offset q
separatorRunEnd(s, q) ==
    CHOOSE e \in q..Len(s) :
        /\ \A p \in (q + 1)..e : isSeparatorChar(s[p])
        /\ (e = Len(s) \/ ~isSeparatorChar(s[e + 1]))

\* The backtracking match of (?:[^\w\n]+[\w']+){0,k}\b at offset q: the end of
\* the match the regular expression engine finds first, -1 if there is none.
\* Each quantifier is greedy: it takes the longest run first and gives back one
\* character at a time when what follows does not match.
RECURSIVE groupMatch(_, _, _)
RECURSIVE separatorBacktrack(_, _, _, _)
RECURSIVE tokenBacktrack(_, _, _, _)

groupMatch(s, q, k) ==
    LET more == IF k > 0 THEN separatorBacktrack(s, q, separatorRunEnd(s, q), k) ELSE -1
    IN  IF more # -1 THEN more
        ELSE IF wordBoundary(s, q) THEN q ELSE -1

separatorBacktrack(s, q, e, k) ==
    IF e <= q THEN -1
    ELSE LET r == tokenBacktrack(s, e, tokenRunEnd(s, e), k)
         IN  IF r # -1 THEN r ELSE separatorBacktrack(s, q, e - 1, k)

tokenBacktrack(s, q, e, k) ==
    IF e <= q THEN -1
    ELSE LET r == groupMatch(s, e, k - 1)
         IN  IF r # -1 THEN r ELSE tokenBacktrack(s, q, e - 1, k)

\* the match of \b[\w']+(?:[^\w\n]+[\w']+){0,n}\b that starts at offset q
matchAt(s, q, n) ==
    IF wordBoundary(s, q) THEN tokenBacktrack(s, q, tokenRunEnd(s, q), n + 1) ELSE -1

\* str.match(regex)[0]: the leftmost match; <<>> stands for no match
firstMatch(s, n) ==
    LET starts == {q \in 0..Len(s) : matchAt(s, q, n) # -1}
    IN  IF starts = {} THEN <<>>
        ELSE LET q == CHOOSE q \in starts : \A r \in starts : q <= r
             IN  SubSeq(s, q + 1, matchAt(s, q, n))

\* String.prototype.lastIndexOf('.') + 1: the 1-based position of the last period, 0 if none
lastPeriod(s) ==
    LET ps == {p \in 1..Len(s) : s[p] = "."}
    IN  IF ps = {} THEN 0 ELSE CHOOSE p \in ps : \A q \in ps : p >= q

\* truncate(str, n)
truncate(s, n) ==
    IF Len(s) <= n THEN s
    ELSE sliceTo(firstMatch(s, n), lastPeriod(firstMatch(s, n)))

\* str = str.slice(part.length)
consumed(s, part) == sliceFrom(s, Len(part))

matchIsEmptyList(n) == FALSE

\* str.match(/(\w+)/g) is null when there is no match, and null.length throws
matchIsNull(n) == n = 0

\* let str = text.trim(); if (str.match(/(\w+)/g).length > NUMBER_OF_CHARACTERS) ...
\* else parts.push(str). The length of null is a TypeError.
SplitEnter ==
    /\ spc = "start"
    /\ str' = trim(text)
    /\ IF matchIsNull(matchCount(trim(text)))
         THEN spc' = "threw" /\ UNCHANGED parts
         ELSE IF matchCount(trim(text)) > limit
                THEN spc' = "loop" /\ UNCHANGED parts
                ELSE spc' = "done" /\ parts' = <<trim(text)>>
    /\ UNCHANGED <<site, ovars, ivars, cvars, xvars, log, rvars, limit, text>>

\* one iteration of the while loop, its condition true
SplitIterate ==
    /\ spc = "loop"
    /\ Len(parts) < MaxParts
    /\ matchCount(str) > limit
    /\ LET part == trim(truncate(str, limit))
       IN  /\ str' = consumed(str, part)
           /\ parts' = Append(parts, part)
    /\ UNCHANGED <<site, ovars, ivars, cvars, xvars, log, rvars, limit, text, spc>>

\* the condition of the while loop is not true: it is false and
\* parts.push(str.trim()) ends the splitting, or it reads the length of null
SplitLast ==
    /\ spc = "loop"
    /\ ~(matchCount(str) > limit)
    /\ IF matchCount(str) = 0
         THEN spc' = "threw" /\ UNCHANGED parts
         ELSE spc' = "done" /\ parts' = Append(parts, trim(str))
    /\ UNCHANGED <<site, ovars, ivars, cvars, xvars, log, rvars, limit, text, str>>

SplitNext == SplitEnter \/ SplitIterate \/ SplitLast

Texts == UNION {[1..n -> Alphabet] : n \in 0..MaxLen}

\* quillbot(text, options) / paraphraser(text, options) is called with some text
InitSplit ==
    /\ site = "split"
    /\ log = <<>>
    /\ XIdle
    /\ RIdle
    /\ limit \in 1..MaxWordLimit
    /\ text \in Texts
    /\ str = <<>>
    /\ parts = <<>>
    /\ spc = "start"
    /\ IIdle
    /\ CIdle
    /\ OIdle

SpecSplit == InitSplit /\ [][SplitNext]_vars

-----------------------------------------------------------------------------
(* The top-level calls: paraphraser, translator and quillbot *)

\* a step of a top-level call or of inputString, as log records it
StepEv(name, s, out) == [ev |-> name, seg |-> s, out |-> out, val |-> <<>>]

\* getOutputContent has returned content for segment s
ExtractEv(s, content) == [ev |-> "extract", seg |-> s, out |-> "ok", val |-> content]

\* the tools: paraphraser and translator set the browser up with setupBrowser,
\* quillbot launches it in its own body
Tools == {"paraphraser", "translator", "quillbot"}

\* the texts the calls are followed on: no word, one segment, several
\* segments, and a text whose word window holds no period
CallTexts ==
    { <<>>,
      <<" ", ".">>,
      <<"a">>,
      <<"a", ".", "a">>,
      <<"a", ".", "a", ".", "a">>,
      <<"a", " ", "a">> }

\* what the page gives for the text of the output element: no element (null),
\* or its textContent
RawOutputs == {Null, <<>>, <<" ">>, <<"a">>, <<" ", "b", " ">>}

\* the operation on the page threw
Raised == <<"raised">>

\* const isDev = options.headless === false || options.headless === 'new'
devMode(h) == h \in {"false", "new"}

\* if (typeof options.headless !== 'boolean') options.headless = 'new'
defaultHeadless(h) == IF h \in {"true", "false"} THEN h ELSE "new"

\* navigateToUrl: an error of page.goto is ignored if its message includes
\* 'detached' or 'Navigating frame'
navigationIgnored(m) == Includes(m, "detached") \/ Includes(m, "Navigating frame")

\* getOutputContent: null if the operation threw, the element is missing or its
\* text is blank, else the trimmed text
getOutputContent(raw) ==
    IF raw = Raised \/ raw = Null THEN Null
    ELSE IF trim(raw) = <<>> THEN Null
    ELSE trim(raw)

\* the number of segments the call processes
Segments == IF tool = "translator" THEN 1 ELSE Len(parts)

\* String.prototype.toLowerCase, on the letters of the names below
toLowerCase(s) ==
    [k \in 1..Len(s) |->
        CASE s[k] = "S" -> "s"
          [] s[k] = "F" -> "f"
          [] s[k] = "A" -> "a"
          [] s[k] = "K" -> "k"
          [] OTHER -> s[k]]

\* String.prototype.includes on sequences of characters
includes(s, pat) ==
    \E k \in 0..(Len(s) - Len(pat)) : SubSeq(s, k + 1, k + Len(pat)) = pat

\* languageMap of getLanguageCode, in the order of its entries: Spanish, French
\* and the two spellings of auto-detect
languageMap ==
    << [key |-> <<"S","p","a","n","i","s","h">>, code |-> "es"],
       [key |-> <<"F","r","e","n","c","h">>, code |-> "fr"],
       [key |-> <<"A","u","t","o">>, code |-> "auto"],
       [key |-> <<"a","u","t","o">>, code |-> "auto"] >>

\* the code of the first of the given entries of languageMap, or null
firstCode(hits) ==
    IF hits = {} THEN "null"
    ELSE languageMap[CHOOSE k \in hits : \A j \in hits : k <= j].code

\* getLanguageCode: the exact match, then the match without case, then the
\* partial match (the name includes a key or a key includes the name), else null
getLanguageCode(languageName) ==
    LET lowerName == toLowerCase(languageName)
        entries == 1..Len(languageMap)
        exact == {k \in entries : languageMap[k].key = languageName}
        noCase == {k \in entries : toLowerCase(languageMap[k].key) = lowerName}
        partial == {k \in entries :
                       \/ includes(lowerName, toLowerCase(languageMap[k].key))
                       \/ includes(toLowerCase(languageMap[k].key), lowerName)}
    IN  IF exact # {} THEN firstCode(exact)
        ELSE IF noCase # {} THEN firstCode(noCase)
        ELSE firstCode(partial)

\* the options sourceLanguage and targetLanguage the translator is followed on:
\* not given, a name of the map, a name in another case, a part of a name, and
\* a name of no entry
LanguageOptions ==
    { [source |-> Null, target |-> Null],
      [source |-> Null, target |-> <<"S","p","a","n","i","s","h">>],
      [source |-> <<"f","r","e","n","c","h">>, target |-> <<"S","p","a","n">>],
      [source |-> <<"K","l","i","n","g","o","n">>, target |-> <<"K","l","i","n","g","o","n">>] }

\* translator: the parameters of the URL: sl is the code of the source language
\* if one is given and has a code, auto if none is given; tl is the code of the
\* target language if one is given and has a code
translatorUrlParams(source, target) ==
    [sl |-> IF source # Null
              THEN (IF getLanguageCode(source) # "null" THEN getLanguageCode(source) ELSE "")
              ELSE "auto",
     tl |-> IF target # Null /\ getLanguageCode(target) # "null"
              THEN getLanguageCode(target) ELSE ""]

\* a top-level call is entered: paraphraser and quillbot start by splitting the
\* text, translator starts by setting up the browser
InitCall ==
    /\ site = "call"
    /\ log = <<>>
    /\ XIdle
    /\ RIdle
    /\ IIdle
    /\ tool \in Tools
    /\ text \in CallTexts
    /\ limit \in (IF tool = "translator" THEN {0} ELSE 1..MaxWordLimit)
    /\ str = <<>>
    /\ parts = <<>>
    /\ spc = (IF tool = "translator" THEN "idle" ELSE "start")
    /\ cpc = (IF tool = "translator" THEN "launch" ELSE "split")
    /\ headless \in {"unset", "new", "false", "true"}
    /\ success \in BOOLEAN
    /\ isDev = FALSE
    /\ launched = 0
    /\ pages = 0
    /\ browser = FALSE
    /\ page = FALSE
    /\ seg = 0
    /\ output = <<>>
    /\ completion = Pending
    /\ closes = 0
    /\ settled = Pending
    /\ FIdle
    /\ DIdle
    /\ KIdle
    /\ YIdle
    /\ \E o \in (IF tool = "translator" THEN LanguageOptions
                  ELSE {[source |-> Null, target |-> Null]}) :
          /\ sourceLanguage = o.source
          /\ targetLanguage = o.target
    /\ urlParams = NoParams

\* return v inside the try block: the finally block runs before the promise settles
ReturnValue(v) ==
    /\ completion' = v
    /\ cpc' = "finally"

\* an error reaches the catch block of the call
Throw ==
    /\ cpc' = "catch"
    /\ UNCHANGED completion

\* the splitting has ended: with parts, or with the TypeError of null.length
SplitFinished ==
    /\ cpc = "split"
    /\ spc \in {"done", "threw"}
    /\ IF spc = "done" THEN cpc' = "launch" /\ UNCHANGED completion ELSE Throw
    /\ UNCHANGED <<site, ovars, xvars, log, rvars, svars, ivars, tool, headless, success,
                   isDev, launched, pages, browser, page, seg, output, closes, settled>>

\* setupBrowser up to puppeteer.launch (quillbot: the same lines in its body);
\* quillbot assigns its local browser here, the others when setupBrowser returns
Launch ==
    /\ cpc = "launch"
    /\ isDev' = devMode(headless)
    /\ headless' = defaultHeadless(headless)
    /\ \E ok \in BOOLEAN :
          /\ log' = Append(log, StepEv("launch", 0, IF ok THEN "ok" ELSE "failed"))
          /\ IF ok
               THEN /\ launched' = launched + 1
                    /\ browser' = (tool = "quillbot")
                    /\ cpc' = "newPage"
               ELSE /\ cpc' = "catch"
                    /\ UNCHANGED <<launched, browser>>
    /\ UNCHANGED <<site, ovars, xvars, rvars, svars, ivars, tool, success, pages, page,
                   seg, output, completion, closes, settled>>

newPageRetried == "launch"

\* setupBrowser has no try block: an error of browser.newPage() reaches the
\* catch block of the call
newPageFailed == "catch"

\* const page = await browser.newPage()
NewPage ==
    /\ cpc = "newPage"
    /\ \E ok \in BOOLEAN :
          /\ log' = Append(log, StepEv("newPage", 0, IF ok THEN "ok" ELSE "failed"))
          /\ IF ok
               THEN /\ pages' = pages + 1
                    /\ page' = (tool = "quillbot")
                    /\ cpc' = "viewport"
               ELSE /\ cpc' = newPageFailed
                    /\ UNCHANGED <<pages, page>>
    /\ UNCHANGED <<site, ovars, xvars, rvars, svars, ivars, tool, headless, success, isDev,
                   launched, browser, seg, output, completion, closes, settled>>

\* await page.setViewport(...); return {browser, page, isDev}: the caller's
\* locals browser and page are assigned when setupBrowser has returned
SetViewport ==
    /\ cpc = "viewport"
    /\ \E ok \in BOOLEAN :
          /\ log' = Append(log, StepEv("viewport", 0, IF ok THEN "ok" ELSE "failed"))
          /\ IF ok
               THEN /\ browser' = TRUE
                    /\ page' = TRUE
                    /\ cpc' = "navigate"
               ELSE /\ cpc' = "catch"
                    /\ UNCHANGED <<browser, page>>
    /\ UNCHANGED <<site, ovars, xvars, rvars, svars, ivars, tool, headless, success, isDev,
                   launched, pages, seg, output, completion, closes, settled>>

\* the variables no step between the set-up and the teardown changes
sessionVars == <<site, ovars, xvars, rvars, svars, ivars, tool, headless, success, isDev,
                 launched, pages, browser, page, closes, settled>>

\* translator: the URL is built from the languages; then navigateToUrl
\* (quillbot: the same lines in its body)
Navigate ==
    /\ cpc = "navigate"
    /\ \/ /\ log' = Append(log, StepEv("navigate", 0, "ok"))
          /\ cpc' = "init"
       \/ \E m \in PageMessages :
             IF navigationIgnored(m)
               THEN /\ log' = Append(log, StepEv("navigate", 0, "ignored"))
                    /\ cpc' = "init"
               ELSE /\ log' = Append(log, StepEv("navigate", 0, "failed"))
                    /\ cpc' = "catch"
    /\ urlParams' = (IF tool = "translator"
                      THEN translatorUrlParams(sourceLanguage, targetLanguage)
                      ELSE urlParams)
    /\ UNCHANGED <<site, fvars, dvars, sourceLanguage, targetLanguage, inflight, world,
                   yvars, xvars, rvars, svars,
                   ivars, tool, headless, success, isDev, launched, pages, browser, page,
                   closes, settled, seg, output, completion>>

\* waitForPageInitialization: it throws if page.url() throws; the time-out of
\* waitForFunction and the failure of the last check are passed over
PageInitialization ==
    /\ cpc = "init"
    /\ \E ok \in BOOLEAN :
          /\ log' = Append(log, StepEv("init", 0, IF ok THEN "ok" ELSE "failed"))
          /\ cpc' = (IF ok THEN "settings" ELSE "catch")
    /\ UNCHANGED <<sessionVars, seg, output, completion>>

afterSettingsFatal(ok) == IF ok THEN "input" ELSE "catch"

\* try { await selectLanguage(...) } catch (error) { console.log(...) }: the
\* search for the input follows, whether the settings were made or not
afterSettings(ok) == "input"

\* the optional settings (language, mode, synonyms level; source and target
\* language): each in a try block whose catch logs and continues
Settings ==
    /\ cpc = "settings"
    /\ \E ok \in BOOLEAN :
          /\ log' = Append(log, StepEv("settings", 0, IF ok THEN "ok" ELSE "ignored"))
          /\ cpc' = afterSettings(ok)
    /\ UNCHANGED <<sessionVars, seg, output, completion>>

\* the loop that looks for the input (getInputSelector, getInputField), and the
\* return null that follows it when the input was not found
ResolveInput ==
    /\ cpc = "input"
    /\ \E found \in BOOLEAN :
          /\ log' = Append(log, StepEv("input", 0, IF found THEN "ok" ELSE "missing"))
          /\ IF found
               THEN cpc' = "refresh" /\ seg' = 1 /\ UNCHANGED completion
               ELSE ReturnValue(Null) /\ UNCHANGED seg
    /\ UNCHANGED <<sessionVars, output>>

\* the safePageOperation that re-acquires the input field
Refresh ==
    /\ cpc = "refresh"
    /\ \E ok \in BOOLEAN :
          /\ log' = Append(log, StepEv("refresh", seg, IF ok THEN "ok" ELSE "failed"))
          /\ cpc' = (IF ok THEN "clear" ELSE "catch")
    /\ UNCHANGED <<sessionVars, seg, output, completion>>

\* await clearInputField(page, inputSelector): it clears the input, or one of its
\* page operations throws and its catch block logs the error and returns
Clear ==
    /\ cpc = "clear"
    /\ \E out \in {"ok", "ignored"} :
          log' = Append(log, StepEv("clear", seg, out))
    /\ cpc' = "inject"
    /\ UNCHANGED <<sessionVars, seg, output, completion>>

\* await inputString(page, inputSelector, part): it returns or it throws
Inject ==
    /\ cpc = "inject"
    /\ \E ok \in BOOLEAN :
          /\ log' = Append(log, StepEv("inject", seg, IF ok THEN "ok" ELSE "failed"))
          /\ cpc' = (IF ok THEN "button" ELSE "catch")
    /\ UNCHANGED <<sessionVars, seg, output, completion>>

\* const buttonSelector = await getButtonSelector(page): paraphraser and quillbot
\* return null without it, translator goes on to the Enter key
ResolveButton ==
    /\ cpc = "button"
    /\ \E found \in BOOLEAN :
          /\ log' = Append(log, StepEv("button", seg, IF found THEN "ok" ELSE "missing"))
          /\ IF found
               THEN cpc' = "click" /\ UNCHANGED completion
               ELSE IF tool = "translator"
                      THEN cpc' = "enter" /\ UNCHANGED completion
                      ELSE ReturnValue(Null)
    /\ UNCHANGED <<sessionVars, seg, output>>

\* clickParaphraseButton / clickTranslateButton: the value the wrapped
\* operation returns (true after button.click(), false if no button was found) is
\* dropped; the function returns true unless the operation threw
clickButton(out) == out # "failed"

\* submitForm, first half: the click
Click ==
    /\ cpc = "click"
    /\ \E out \in {"clicked", "missing", "failed"} :
          /\ log' = Append(log, StepEv("click", seg, out))
          /\ IF clickButton(out)
               THEN cpc' = "detect" /\ UNCHANGED completion
               ELSE IF tool = "translator"
                      THEN cpc' = "enter" /\ UNCHANGED completion
                      ELSE ReturnValue(Null)
    /\ UNCHANGED <<sessionVars, seg, output>>

\* submitForm, second half: waitForFormSubmission / waitForTranslation
Detect ==
    /\ cpc = "detect"
    /\ \E ok \in BOOLEAN :
          /\ log' = Append(log, StepEv("detect", seg, IF ok THEN "ok" ELSE "failed"))
          /\ IF ok
               THEN cpc' = "extract" /\ UNCHANGED completion
               ELSE IF tool = "translator"
                      THEN cpc' = "enter" /\ UNCHANGED completion
                      ELSE ReturnValue(Null)
    /\ UNCHANGED <<sessionVars, seg, output>>

\* translator, method 2: the Enter key, in a try block whose catch logs
Enter ==
    /\ cpc = "enter"
    /\ \E ok \in BOOLEAN :
          log' = Append(log, StepEv("enter", seg, IF ok THEN "ok" ELSE "ignored"))
    /\ cpc' = "extract"
    /\ UNCHANGED <<sessionVars, seg, output, completion>>

\* paraphraser and quillbot: getOutputContent, then output += content + ' ' and
\* the next part, or return output.trim() after the last one, or return null
Extract ==
    /\ cpc = "extract"
    /\ tool # "translator"
    /\ \E raw \in RawOutputs \cup {Raised} :
          LET content == getOutputContent(raw)
          IN  IF content = Null
                THEN /\ log' = Append(log, StepEv("extract", seg, "empty"))
                     /\ ReturnValue(Null)
                     /\ UNCHANGED <<seg, output, success>>
                ELSE /\ log' = Append(log, ExtractEv(seg, content))
                     /\ output' = output \o content \o <<" ">>
                     /\ IF seg < Segments
                          THEN /\ seg' = seg + 1
                               /\ cpc' = "refresh"
                               /\ UNCHANGED <<completion, success>>
                          ELSE /\ ReturnValue(trim(output'))
                               /\ success' = TRUE
                               /\ UNCHANGED seg
    /\ UNCHANGED <<site, ovars, xvars, rvars, svars, ivars, tool, headless, isDev,
                   launched, pages, browser, page, closes, settled>>

\* translator: a content is a translation if it is not null, not the input and
\* not blank
goodOutputAnyText(content, input) ==
    /\ content # Null
    /\ trim(content) # <<>>

goodOutput(content, input) ==
    /\ content # Null
    /\ trim(content) # trim(input)
    /\ trim(content) # <<>>

\* translator: outputContent after the alternative selectors were tried
afterAlternatives(primary, alternative, input) ==
    IF goodOutput(primary, input) THEN primary
    ELSE IF goodOutput(alternative, input) THEN alternative
    ELSE primary

\* translator: outputContent after the read with OUTPUT_SELECTOR, the alternative
\* selectors and, if there is still no content or the input, page.evaluate on
\* #tltr-output, whose result is taken as it is (Raised: it threw)
translatorRead(primary, alternative, direct, input) ==
    LET read == afterAlternatives(getOutputContent(primary),
                                  getOutputContent(alternative), input)
    IN  IF read = Null \/ trim(read) = trim(input) THEN direct ELSE read

\* translator: the output is read; a good content is trimmed and returned with
\* the success marker set, anything else returns null
TranslatorExtract ==
    /\ cpc = "extract"
    /\ tool = "translator"
    /\ \E outputContent \in
             { translatorRead(primary, alternative, direct, text) :
                  primary \in RawOutputs \cup {Raised},
                  alternative \in RawOutputs \cup {Raised},
                  direct \in RawOutputs \cup {Raised} } :
          IF outputContent = Raised
            THEN /\ log' = Append(log, StepEv("extract", seg, "failed"))
                 /\ Throw
                 /\ UNCHANGED success
            ELSE IF goodOutput(outputContent, text)
                   THEN /\ log' = Append(log, ExtractEv(seg, trim(outputContent)))
                        /\ ReturnValue(trim(outputContent))
                        /\ success' = TRUE
                   ELSE /\ log' = Append(log, StepEv("extract", seg, "empty"))
                        /\ ReturnValue(Null)
                        /\ UNCHANGED success
    /\ UNCHANGED <<site, ovars, xvars, rvars, svars, ivars, tool, headless, isDev,
                   launched, pages, browser, page, seg, output, closes, settled>>

caughtPartial(out) == trim(out)

\* the catch block of the call: return null
caught(out) == Null

\* the catch block: the error is logged, a snapshot is saved if the page is
\* there, and null is returned
Catch ==
    /\ cpc = "catch"
    /\ log' = Append(log, StepEv("catch", seg, "ok"))
    /\ ReturnValue(caught(output))
    /\ UNCHANGED <<sessionVars, seg, output>>

closeErrorEscapes(ok) == ~ok

\* closeBrowser: try { await browser.close() } catch (error) { console.error(...) }
closeErrorThrown(ok) == FALSE

\* the finally block: closeBrowser(browser, options) (quillbot: the same lines in
\* its body), after which the promise settles
CloseBrowser ==
    /\ cpc = "finally"
    /\ cpc' = "settled"
    /\ IF ~browser
         THEN /\ settled' = completion
              /\ UNCHANGED <<log, closes>>
         ELSE \E ok \in BOOLEAN :
                /\ log' = log
                          \o (IF devMode(headless) /\ ~success
                                THEN <<StepEv("hold", seg, "ok")>> ELSE <<>>)
                          \o <<StepEv("close", seg, IF ok THEN "ok" ELSE "failed")>>
                /\ closes' = closes + 1
                /\ settled' = (IF closeErrorThrown(ok) THEN Rejected ELSE completion)
    /\ UNCHANGED <<site, ovars, xvars, rvars, svars, ivars, tool, headless, success, isDev,
                   launched, pages, browser, page, seg, output, completion>>

CallNext ==
    \/ SplitEnter
    \/ SplitIterate
    \/ SplitLast
    \/ SplitFinished
    \/ Launch
    \/ NewPage
    \/ SetViewport
    \/ Navigate
    \/ PageInitialization
    \/ Settings
    \/ ResolveInput
    \/ Refresh
    \/ Clear
    \/ Inject
    \/ ResolveButton
    \/ Click
    \/ Detect
    \/ Enter
    \/ Extract
    \/ TranslatorExtract
    \/ Catch
    \/ CloseBrowser

SpecCall == InitCall /\ [][CallNext]_vars

-----------------------------------------------------------------------------
(* inputString and getInputContent *)

\* the longest text given to inputString, white space around it not counted
MaxText == 20

\* a run of n letters with lead and trail blanks around it
padded(lead, n, trail) ==
    [k \in 1..lead |-> " "] \o [k \in 1..n |-> "a"] \o [k \in 1..trail |-> " "]

\* the texts inputString is given, and the contents the input can hold after it
InjectTexts == {padded(lead, n, trail) : lead \in 0..1, n \in 0..MaxText, trail \in 0..1}

\* the file whose getInputContent and inputString run
Modules == {"lib/utils.js", "index.js"}

\* what the page gives at the read-back: null (no element), the content of the
\* element, or an error safePageOperation lets through
ReadBacks == {Null} \cup InjectTexts \cup {Raised}

\* the steps of the direct method and of the paste fallback, in order
DirectSteps == <<"assign", "click", "end", "space">>
PasteSteps == <<"paste", "pasteClick", "pasteEnd", "pasteSpace">>

\* getInputContent: index.js awaits safePageOperation inside its try block, so
\* its catch returns null; lib/utils.js returns the promise without awaiting
\* it, so a rejection passes by the catch and getInputContent rejects
getInputContent(module, read) ==
    IF read = Raised /\ module = "index.js" THEN Null ELSE read

verifiedAboveThreshold(content, intended) ==
    /\ content # Null
    /\ content # <<>>
    /\ 10 * Len(trim(content)) > 9 * Len(trim(intended))

\* inputContent && inputContent.trim().length >= text.trim().length * 0.9
\* (null and '' are falsy; for integers m, n the comparison of m with the double
\* n * 0.9 agrees with 10 m >= 9 n)
verified(content, intended) ==
    /\ content # Null
    /\ content # <<>>
    /\ 10 * Len(trim(content)) >= 9 * Len(trim(intended))

\* inputString(page, inputSelector, text) is called
InitInject ==
    /\ site = "inject"
    /\ log = <<>>
    /\ XIdle
    /\ RIdle
    /\ SIdle
    /\ CIdle
    /\ imodule \in Modules
    /\ ipc = "direct"
    /\ istep = 1
    /\ itext \in InjectTexts
    /\ icontent = NotRead
    /\ OIdle

\* a step of the direct method: the assignment, the click, Ctrl+End, Space; each
\* inside the outer try block, whose catch logs and throws again
DirectStep ==
    /\ ipc = "direct"
    /\ \E ok \in BOOLEAN :
          /\ log' = Append(log, StepEv(DirectSteps[istep], 0, IF ok THEN "ok" ELSE "failed"))
          /\ IF ~ok
               THEN ipc' = "threw" /\ UNCHANGED istep
               ELSE IF istep = Len(DirectSteps)
                      THEN ipc' = "read" /\ istep' = 0
                      ELSE ipc' = "direct" /\ istep' = istep + 1
    /\ UNCHANGED <<site, ovars, xvars, rvars, svars, cvars, imodule, itext, icontent>>

\* const inputContent = await getInputContent(page, inputSelector) and the
\* verification that follows it
ReadBack ==
    /\ ipc = "read"
    /\ \E read \in ReadBacks :
          LET content == getInputContent(imodule, read)
          IN  IF content = Raised
                THEN /\ log' = Append(log, StepEv("read", 0, "failed"))
                     /\ ipc' = "threw"
                     /\ UNCHANGED <<istep, icontent>>
                ELSE /\ log' = Append(log, StepEv("read", 0,
                                         IF read = Raised THEN "ignored" ELSE "ok"))
                     /\ icontent' = content
                     /\ IF verified(content, itext)
                          THEN ipc' = "returned" /\ UNCHANGED istep
                          ELSE ipc' = "paste" /\ istep' = 1
    /\ UNCHANGED <<site, ovars, xvars, rvars, svars, cvars, imodule, itext>>

\* a step of the paste fallback: the paste, the click, Ctrl+End, Space; inside
\* the inner try block, whose catch logs
PasteStep ==
    /\ ipc = "paste"
    /\ \E ok \in BOOLEAN :
          /\ log' = Append(log, StepEv(PasteSteps[istep], 0, IF ok THEN "ok" ELSE "failed"))
          /\ IF ok /\ istep < Len(PasteSteps)
               THEN ipc' = "paste" /\ istep' = istep + 1
               ELSE ipc' = "returned" /\ UNCHANGED istep
    /\ UNCHANGED <<site, ovars, xvars, rvars, svars, cvars, imodule, itext, icontent>>

InjectNext == DirectStep \/ ReadBack \/ PasteStep

SpecInject == InitInject /\ [][InjectNext]_vars

-----------------------------------------------------------------------------
(* submitForm: the click and the detection of the completion *)

\* the values of the argument buttonSelector: null, a CSS selector, an XPath
ButtonSelectors == {"null", "css", "xpath"}

strategiesIndicatorFirst(t) ==
    IF t = "translator" THEN <<"output">> ELSE <<"indicator", "output">>

\* the approaches of the detection, in the order the tool tries them:
\* waitForFormSubmission of quillbot waits for the loading indicator first and
\* for the output second, that of paraphraser for the output first and for the
\* indicator second; waitForTranslation of translator waits for the output only
strategies(t) ==
    CASE t = "quillbot" -> <<"indicator", "output">>
      [] t = "paraphraser" -> <<"output", "indicator">>
      [] t = "translator" -> <<"output">>

\* how a wait ends: the element is in the awaited state, or safePageOperation
\* throws the error of the wait
WaitOutcomes == {"ok"} \cup PageMessages

\* the first wait of an approach
firstWait(strategy) == IF strategy = "indicator" THEN "appear" ELSE "output"

neverSecond(k, t) == FALSE

\* an approach has failed: there is another one to try
anotherStrategy(k, t) == k < Len(strategies(t))

\* submitForm(page, buttonSelector) is called
InitSubmit ==
    /\ site = "submit"
    /\ log = <<>>
    /\ XIdle
    /\ RIdle
    /\ SIdle
    /\ IIdle
    /\ CIdle
    /\ DIdle
    /\ LIdle
    /\ KIdle
    /\ YIdle
    /\ ftool \in Tools
    /\ buttonSelector \in ButtonSelectors
    /\ fpc = "click"
    /\ fstrategy = 0
    /\ isClicked = "unset"
    /\ fresult = "none"

\* what no step of submitForm changes
submitFrame == <<site, xvars, rvars, svars, ivars, cvars, dvars, ftool, buttonSelector,
                 sourceLanguage, targetLanguage, urlParams, inflight, world, yvars>>

\* const isClicked = await clickParaphraseButton(page, buttonSelector);
\* if (!isClicked) return false
SubmitClick ==
    /\ fpc = "click"
    /\ \E out \in (IF buttonSelector = "null" THEN {"no selector"}
                   ELSE {"clicked", "missing", "failed"}) :
          /\ log' = (IF out = "no selector" THEN log
                     ELSE Append(log, StepEv("click", 0, out)))
          /\ IF out # "no selector" /\ clickButton(out)
               THEN /\ isClicked' = "true"
                    /\ fstrategy' = 1
                    /\ fpc' = firstWait(strategies(ftool)[1])
                    /\ UNCHANGED fresult
               ELSE /\ isClicked' = "false"
                    /\ fresult' = "false"
                    /\ fpc' = "returned"
                    /\ UNCHANGED fstrategy
    /\ UNCHANGED submitFrame

\* the catch block of an approach: the next approach, or return false
StrategyFailed ==
    IF anotherStrategy(fstrategy, ftool)
      THEN /\ fstrategy' = fstrategy + 1
           /\ fpc' = firstWait(strategies(ftool)[fstrategy + 1])
           /\ UNCHANGED fresult
      ELSE /\ fresult' = "false"
           /\ fpc' = "returned"
           /\ UNCHANGED fstrategy

\* the approach has succeeded: return true
StrategySucceeded ==
    /\ fresult' = "true"
    /\ fpc' = "returned"
    /\ UNCHANGED fstrategy

\* the wait for the output element to be visible, and the delay after it; in
\* translator the content of the output is looked at before true is returned
WaitOutput ==
    /\ fpc = "output"
    /\ \E out \in WaitOutcomes :
          IF out = "ok"
            THEN /\ log' = log \o <<StepEv("output", fstrategy, "ok"),
                                    StepEv("settle", fstrategy, "ok")>>
                 /\ IF ftool = "translator"
                      THEN fpc' = "content" /\ UNCHANGED <<fstrategy, fresult>>
                      ELSE StrategySucceeded
            ELSE /\ log' = Append(log, StepEv("output", fstrategy, out))
                 /\ StrategyFailed
    /\ UNCHANGED <<submitFrame, isClicked>>

\* waitForTranslation: hasContent; an empty output is waited for once more, and
\* true is returned; an error is caught and false is returned
WaitContent ==
    /\ fpc = "content"
    /\ \E out \in WaitOutcomes \cup {"empty"} :
          /\ log' = Append(log, StepEv("content", fstrategy, out))
          /\ IF out \in PageMessages THEN StrategyFailed ELSE StrategySucceeded
    /\ UNCHANGED <<submitFrame, isClicked>>

\* the wait for the loading indicator of the button to be visible
WaitAppear ==
    /\ fpc = "appear"
    /\ \E out \in WaitOutcomes :
          /\ log' = Append(log, StepEv("appear", fstrategy, out))
          /\ IF out = "ok"
               THEN fpc' = "disappear" /\ UNCHANGED <<fstrategy, fresult>>
               ELSE StrategyFailed
    /\ UNCHANGED <<submitFrame, isClicked>>

\* the wait for the loading indicator to be hidden again
WaitDisappear ==
    /\ fpc = "disappear"
    /\ \E out \in WaitOutcomes :
          /\ log' = Append(log, StepEv("disappear", fstrategy, out))
          /\ IF out = "ok" THEN StrategySucceeded ELSE StrategyFailed
    /\ UNCHANGED <<submitFrame, isClicked>>

SubmitNext ==
    \/ SubmitClick
    \/ WaitOutput
    \/ WaitContent
    \/ WaitAppear
    \/ WaitDisappear

SpecSubmit == InitSubmit /\ [][SubmitNext]_vars

-----------------------------------------------------------------------------
(* saveHTMLForDebug *)

\* the largest number of calls of saveHTMLForDebug followed
MaxSnapshots == 3

\* safePageOperation(..., 1): "Only one retry for saving HTML"
SnapshotRetries == 1

FsEv(name, out) == [ev |-> name, cand |-> 0, i |-> 0, out |-> out, ms |-> 0]

\* the error fs.mkdirSync or fs.writeFileSync throws
FsError == "EACCES"

swallowsNone(out) == FALSE

\* catch (error) { /* Silently fail - HTML saving is not critical */ }
swallows(out) == TRUE

\* the arguments of a call: isDev and page are each given or not
SnapshotArgs(d, p) ==
    /\ dIsDev' = d
    /\ dPage' = p
    /\ dpc' = "called"

\* saveHTMLForDebug(page, filename, isDev) is called for the first time
InitSnapshot ==
    /\ site = "snapshot"
    /\ log = <<>>
    /\ XIdle
    /\ RIdle
    /\ SIdle
    /\ IIdle
    /\ CIdle
    /\ FIdle
    /\ LIdle
    /\ KIdle
    /\ YIdle
    /\ dIsDev \in BOOLEAN
    /\ dPage \in BOOLEAN
    /\ dpc = "called"
    /\ debugDir \in BOOLEAN
    /\ snapshots = 1

\* what no step of saveHTMLForDebug changes
snapshotFrame == <<site, rvars, svars, ivars, cvars, fvars,
                   sourceLanguage, targetLanguage, urlParams, inflight, world, yvars>>

\* if (!isDev || !page) return; else safePageOperation(..., 1) is entered
SnapshotEntry ==
    /\ dpc = "called"
    /\ IF ~dIsDev \/ ~dPage
         THEN /\ dpc' = "returned"
              /\ UNCHANGED xvars
         ELSE /\ dpc' = "read"
              /\ xpc' = "loop"
              /\ xi' = 0
              /\ xretries' = SnapshotRetries
              /\ xpageRef' = FALSE
              /\ lastError' = ""
              /\ xresult' = NoResult
    /\ UNCHANGED <<snapshotFrame, log, dIsDev, dPage, debugDir, snapshots>>

\* safePageOperation has ended: its error is caught, or if (!html) return, or
\* the markup is to be saved
SnapshotRead ==
    /\ dpc = "read"
    /\ xpc \in {"returned", "threw"}
    /\ dpc' = (IF xpc = "threw"
                 THEN (IF swallows(xresult) THEN "returned" ELSE "threw")
                 ELSE IF xresult.val THEN "save" ELSE "returned")
    /\ UNCHANGED <<snapshotFrame, xvars, log, dIsDev, dPage, debugDir, snapshots>>

\* fs.existsSync, fs.mkdirSync if the directory is missing, fs.writeFileSync:
\* each of the two can throw, and the error is caught
SnapshotSave ==
    /\ dpc = "save"
    /\ \E made \in BOOLEAN, wrote \in BOOLEAN :
          LET mk == IF made THEN Ok(TRUE) ELSE Err(FsError)
              wr == IF wrote THEN Ok(TRUE) ELSE Err(FsError)
              failure == IF ~debugDir /\ ~made THEN mk ELSE wr
          IN  /\ log' = log \o (IF debugDir THEN <<>> ELSE <<FsEv("mkdir", mk)>>)
                            \o (IF debugDir \/ made THEN <<FsEv("write", wr)>> ELSE <<>>)
              /\ debugDir' = (debugDir \/ made)
              /\ dpc' = (IF failure.kind = "ok" \/ swallows(failure)
                           THEN "returned" ELSE "threw")
    /\ UNCHANGED <<snapshotFrame, xvars, dIsDev, dPage, snapshots>>

\* the caller goes on to its next step and calls saveHTMLForDebug again
SnapshotAgain ==
    /\ dpc = "returned"
    /\ snapshots < MaxSnapshots
    /\ snapshots' = snapshots + 1
    /\ log' = <<>>
    /\ \E d \in BOOLEAN, p \in BOOLEAN : SnapshotArgs(d, p)
    /\ UNCHANGED <<snapshotFrame, xvars, debugDir>>

SnapshotNext ==
    \/ SnapshotEntry
    \/ Attempt
    \/ SnapshotRead
    \/ SnapshotSave
    \/ SnapshotAgain

SpecSnapshot == InitSnapshot /\ [][SnapshotNext]_vars

-----------------------------------------------------------------------------
(* Two top-level calls in flight together *)

\* the calls in flight
Callers == {1, 2}

\* the largest number of operations a call makes on its page
MaxOps == 2

\* the locals of a call at its entry: let browser; let page; and the locals
\* of setupBrowser (0 is undefined)
Entered ==
    [pc |-> "launch", sbrowser |-> 0, spage |-> 0, browser |-> 0, page |-> 0, ops |-> 0]

latestBrowser(c) == Len(world.launchedBy)

\* the browser a call closes: its local browser (let browser, inside the function)
ownBrowser(c) == inflight[c].browser

\* call c moves to the step pc with some of its locals assigned
Move(c, locals) == inflight' = [inflight EXCEPT ![c] = locals]

\* caller c has acted on page p, or has closed browser b
Mark(marks, k, c) == [marks EXCEPT ![k] = @ \cup {c}]

\* two calls are entered, one after the other, before either has launched
InitConcurrent ==
    /\ site = "concurrent"
    /\ log = <<>>
    /\ XIdle
    /\ RIdle
    /\ SIdle
    /\ IIdle
    /\ CIdle
    /\ FIdle
    /\ DIdle
    /\ LIdle
    /\ inflight = [c \in Callers |-> Entered]
    /\ world = NoSessions
    /\ YIdle

\* what no step of the two calls changes
concurrentFrame == <<site, xvars, rvars, svars, ivars, cvars, fvars, dvars,
                     sourceLanguage, targetLanguage, urlParams, log, yvars>>

\* setupBrowser: const browser = await puppeteer.launch(...)
KLaunch(c) ==
    /\ inflight[c].pc = "launch"
    /\ \/ /\ world' = [world EXCEPT !.launchedBy = Append(@, c),
                                    !.closedBy = Append(@, {})]
          /\ Move(c, [inflight[c] EXCEPT !.pc = "newPage",
                                         !.sbrowser = Len(world.launchedBy) + 1])
       \/ /\ Move(c, [inflight[c] EXCEPT !.pc = "finally"])
          /\ UNCHANGED world
    /\ UNCHANGED concurrentFrame

\* setupBrowser: const page = await browser.newPage(), in its own browser
KNewPage(c) ==
    /\ inflight[c].pc = "newPage"
    /\ \/ /\ world' = [world EXCEPT !.pageIn = Append(@, inflight[c].sbrowser),
                                    !.usedBy = Append(@, {})]
          /\ Move(c, [inflight[c] EXCEPT !.pc = "viewport",
                                         !.spage = Len(world.pageIn) + 1])
       \/ /\ Move(c, [inflight[c] EXCEPT !.pc = "finally"])
          /\ UNCHANGED world
    /\ UNCHANGED concurrentFrame

\* setupBrowser: page.on(...), await page.setViewport(...), return {browser, page};
\* the call assigns its locals browser and page
KSetViewport(c) ==
    /\ inflight[c].pc = "viewport"
    /\ world' = [world EXCEPT !.usedBy = Mark(@, inflight[c].spage, c)]
    /\ \/ Move(c, [inflight[c] EXCEPT !.pc = "work",
                                      !.browser = inflight[c].sbrowser,
                                      !.page = inflight[c].spage])
       \/ Move(c, [inflight[c] EXCEPT !.pc = "finally"])
    /\ UNCHANGED concurrentFrame

\* a step of the call on its page (navigation, resolution, injection, click,
\* extraction): the next step follows, or the call leaves its try block (by a
\* return or an error, and after its last step)
KOperate(c) ==
    /\ inflight[c].pc = "work"
    /\ inflight[c].ops < MaxOps
    /\ world' = [world EXCEPT !.usedBy = Mark(@, inflight[c].page, c)]
    /\ \E next \in (IF inflight[c].ops + 1 < MaxOps THEN {"work", "finally"} ELSE {"finally"}) :
          Move(c, [inflight[c] EXCEPT !.pc = next, !.ops = @ + 1])
    /\ UNCHANGED concurrentFrame

\* finally { await closeBrowser(browser, options) }: if (!browser) return;
\* await browser.close()
KClose(c) ==
    /\ inflight[c].pc = "finally"
    /\ Move(c, [inflight[c] EXCEPT !.pc = "settled"])
    /\ world' = (IF inflight[c].browser = 0 THEN world
                 ELSE [world EXCEPT !.closedBy = Mark(@, ownBrowser(c), c)])
    /\ UNCHANGED concurrentFrame

ConcurrentNext ==
    \E c \in Callers :
        \/ KLaunch(c)
        \/ KNewPage(c)
        \/ KSetViewport(c)
        \/ KOperate(c)
        \/ KClose(c)

SpecConcurrent == InitConcurrent /\ [][ConcurrentNext]_vars

-----------------------------------------------------------------------------
(* selectSynonymsLevel(page, value) *)

\* the longest value the function is followed on
MaxValueLen == 3

\* the upper end of the range of the slider
MaxLevel == 100

\* the characters of the values: a blank, a sign, digits, the exponent letter
\* and another letter
ValueChars == {" ", "-", "0", "1", "9", "e", "a"}

\* options.synonymsLevel: the function is called only with a value that is not
\* falsy, so never with the empty string
SynonymValues ==
    UNION { [1..n -> ValueChars] : n \in 1..MaxValueLen }

IsDigit(c) == c \in {"0", "1", "9"}

DigitValue(c) == CASE c = "0" -> 0 [] c = "1" -> 1 [] c = "9" -> 9

RECURSIVE leadingDigits(_)
\* the longest prefix of s made of digits
leadingDigits(s) ==
    IF s # <<>> /\ IsDigit(Head(s))
      THEN <<Head(s)>> \o leadingDigits(Tail(s))
      ELSE <<>>

RECURSIVE decimal(_)
\* the number a sequence of digits denotes
decimal(d) ==
    IF d = <<>> THEN 0
    ELSE decimal(SubSeq(d, 1, Len(d) - 1)) * 10 + DigitValue(d[Len(d)])

RECURSIVE dropBlanks(_)
\* s without its leading white space
dropBlanks(s) ==
    IF s # <<>> /\ Head(s) = " " THEN dropBlanks(Tail(s)) ELSE s

NaN == [nan |-> TRUE, n |-> 0]

\* parseInt(value, 10): leading white space is skipped, a sign is read, then the
\* longest run of digits; what follows is ignored; NaN if there is no digit
parseInt(s) ==
    LET t == dropBlanks(s)
        negative == t # <<>> /\ Head(t) = "-"
        body == IF negative THEN Tail(t) ELSE t
        d == leadingDigits(body)
    IN  IF d = <<>> THEN NaN
        ELSE [nan |-> FALSE, n |-> IF negative THEN 0 - decimal(d) ELSE decimal(d)]

\* p || 0: NaN and 0 are falsy
orZero(p) == IF p.nan \/ p.n = 0 THEN 0 ELSE p.n

Smaller(a, b) == IF a <= b THEN a ELSE b

Larger(a, b) == IF a >= b THEN a ELSE b

\* Math.max(0, Math.min(parseInt(value, 10) || 0, 100))
sanitize(v) == Larger(0, Smaller(orZero(parseInt(v)), MaxLevel))

\* selectSynonymsLevel is entered with a value
InitSynonyms ==
    /\ site = "synonyms"
    /\ log = <<>>
    /\ XIdle /\ RIdle /\ SIdle /\ IIdle /\ CIdle /\ FIdle /\ DIdle /\ LIdle /\ KIdle
    /\ value \in SynonymValues
    /\ sanitizedValue = NotSanitized
    /\ ypc = "entered"

synonymsFrame == <<site, xvars, rvars, svars, ivars, cvars, fvars, dvars,
                   sourceLanguage, targetLanguage, urlParams, inflight, world>>

\* const sanitizedValue = Math.max(0, Math.min(parseInt(value, 10) || 0, 100))
SynonymsSanitize ==
    /\ ypc = "entered"
    /\ sanitizedValue' = sanitize(value)
    /\ ypc' = "evaluate"
    /\ UNCHANGED <<synonymsFrame, value, log>>

\* await safePageOperation(() => page.evaluate(..., sanitizedValue)) in a try
\* block: the page sets the slider, has no slider, or the operation throws and
\* the catch block logs the error
SynonymsEvaluate ==
    /\ ypc = "evaluate"
    /\ \E out \in {"Success", "Slider not found", "failed"} :
          log' = Append(log, [ev |-> "evaluate", seg |-> 0, out |-> out,
                              val |-> sanitizedValue])
    /\ ypc' = "returned"
    /\ UNCHANGED <<synonymsFrame, value, sanitizedValue>>

SynonymsNext == SynonymsSanitize \/ SynonymsEvaluate

SpecSynonyms == InitSynonyms /\ [][SynonymsNext]_vars

-----------------------------------------------------------------------------
(* Properties of safePageOperation *)

\* the invocations of the operation, and the waits, in order
Calls == SelectSeq(log, LAMBDA e : e.ev = "call")
Waits == SelectSeq(log, LAMBDA e : e.ev = "wait")
ProbeEvents == SelectSeq(log, LAMBDA e : e.ev = "probe")

ExecDone == xpc \in {"returned", "threw"}

\* the five substrings that make an error transient
TransientSubstrings ==
    {"detached", "Target closed", "Session closed", "Protocol error", "Navigating frame"}

TransientFailure(out) ==
    out.kind = "err" /\ \E p \in TransientSubstrings : Includes(out.msg, p)

PermanentFailure(out) ==
    out.kind = "err" /\ \A p \in TransientSubstrings : ~Includes(out.msg, p)

NoProbeFailed == \A n \in 1..Len(ProbeEvents) : ProbeEvents[n].out.kind = "ok"

\* the invocations made are those of an operation that fails transiently exactly
\* k times and then succeeds
FailsThenSucceeds(k) ==
    /\ Len(Calls) <= k + 1
    /\ \A n \in 1..Len(Calls) :
          IF n <= k THEN TransientFailure(Calls[n].out) ELSE Calls[n].out.kind = "ok"

\* C1: in a finished call in which no liveness probe failed, if the operation
\* failed transiently exactly k times and then succeeded, with retries > k, the
\* call returned the operation's value, the operation was invoked k + 1 times,
\* and the j-th retry was preceded by a wait of 2000 * j ms.
C1_TransientThenSuccess ==
    (site = "direct" /\ ExecDone /\ NoProbeFailed) =>
        \A k \in 0..(xretries - 1) :
            FailsThenSucceeds(k) =>
                /\ xpc = "returned"
                /\ Len(Calls) = k + 1
                /\ xresult = Calls[k + 1].out
                /\ Len(Waits) = k
                /\ \A j \in 1..k : Waits[j].ms = 2000 * j
                /\ \A j \in 1..(k - 1) : Waits[j].ms < Waits[j + 1].ms

C1_Witness ==
    /\ site = "direct"
    /\ xpc = "returned"
    /\ Len(Calls) = 3
    /\ FailsThenSucceeds(2)
    /\ Len(Waits) = 2

\* C2: an invocation is followed by another one only if it failed with a message
\* containing one of the five substrings; when the first invocation fails with
\* any other error, that error is thrown after one invocation, no wait, no probe.
C2_PermanentNotRetried ==
    (site = "direct") =>
        /\ \A n \in 1..(Len(Calls) - 1) : TransientFailure(Calls[n].out)
        /\ \A n \in 1..Len(Calls) :
              PermanentFailure(Calls[n].out) =>
                  /\ n = Len(Calls)
                  /\ xpc = "threw"
                  /\ xresult = Calls[n].out
        /\ (Len(Calls) >= 1 /\ PermanentFailure(Calls[1].out)) =>
              /\ Len(Calls) = 1
              /\ Len(Waits) = 0
              /\ Len(ProbeEvents) = 0

C2_Witness ==
    /\ site = "direct"
    /\ xretries = 3
    /\ xpc = "threw"
    /\ Len(Calls) = 1
    /\ Calls[1].out = Err("target closed")

AllCallsTransient == \A n \in 1..Len(Calls) : TransientFailure(Calls[n].out)

\* C3 as stated: the operation is invoked at most r times; when every attempt
\* fails transiently, the last attempt's error is thrown after exactly r attempts
\* and r - 1 waits; with r = 1 there is exactly one attempt and no wait.
C3_BudgetExhausted_Original ==
    (site = "direct" /\ xretries >= 1) =>
        /\ Len(Calls) <= xretries
        /\ (ExecDone /\ AllCallsTransient) =>
              /\ xpc = "threw"
              /\ Len(Calls) = xretries
              /\ xresult = Calls[Len(Calls)].out
              /\ Len(Waits) = xretries - 1
        /\ (ExecDone /\ xretries = 1) => (Len(Calls) = 1 /\ Len(Waits) = 0)

\* C3 amended: as C3, for the calls in which no liveness probe fails.
C3_BudgetExhausted ==
    (site = "direct" /\ xretries >= 1) =>
        /\ Len(Calls) <= xretries
        /\ (ExecDone /\ AllCallsTransient /\ NoProbeFailed) =>
              /\ xpc = "threw"
              /\ Len(Calls) = xretries
              /\ xresult = Calls[Len(Calls)].out
              /\ Len(Waits) = xretries - 1
        /\ (ExecDone /\ xretries = 1) => (Len(Calls) = 1 /\ Len(Waits) = 0)

C3_Witness ==
    /\ site = "direct"
    /\ xretries = 3
    /\ xpc = "threw"
    /\ Len(Calls) = 3
    /\ AllCallsTransient
    /\ Len(Waits) = 2

\* C4: with a page reference every wait is followed by the probe and every
\* invocation after the first follows a transient failure, its wait and a probe
\* that succeeded; a failed probe is the last thing the call does and the call
\* throws; without a page reference there is no probe.
C4_ProbeBeforeRetry ==
    (site = "direct") =>
        /\ ~xpageRef => Len(ProbeEvents) = 0
        /\ xpageRef =>
              \A n \in 1..Len(log) :
                  /\ (log[n].ev = "wait" /\ n < Len(log)) => log[n + 1].ev = "probe"
                  /\ (log[n].ev = "wait" /\ n = Len(log)) => xpc = "probe"
                  /\ (log[n].ev = "call" /\ n > 1) =>
                        /\ n > 3
                        /\ log[n - 1].ev = "probe" /\ log[n - 1].out.kind = "ok"
                        /\ log[n - 2].ev = "wait"
                        /\ log[n - 3].ev = "call" /\ TransientFailure(log[n - 3].out)
        /\ \A n \in 1..Len(log) :
              (log[n].ev = "probe" /\ log[n].out.kind = "err") =>
                  /\ n = Len(log)
                  /\ xpc = "threw"
                  /\ xresult.kind = "err"

C4_Witness ==
    /\ site = "direct"
    /\ xpageRef
    /\ xretries = 3
    /\ xpc = "threw"
    /\ Len(Calls) = 1
    /\ Len(log) = 3
    /\ log[3].ev = "probe" /\ log[3].out.kind = "err"

-----------------------------------------------------------------------------
(* Properties of the resolvers *)

Candidates == 1..Len(dom)

\* the query made for candidate c returned (it did not raise)
QueryReturned(c) ==
    \E n \in 1..Len(log) :
        log[n].ev = "call" /\ log[n].cand = c /\ log[n].out.kind = "ok"

\* the first candidate of the list whose element is present and visible, 0 if none
FirstVisible ==
    IF \E c \in Candidates : dom[c] = "visible"
      THEN CHOOSE c \in Candidates :
             dom[c] = "visible" /\ \A d \in 1..(c - 1) : dom[d] # "visible"
      ELSE 0

\* candidate c comes before the returned one, or nothing was returned
BeforeResult(c) == rresult = 0 \/ c < rresult

\* C5 as stated: getInputSelector returns the first candidate that is present and
\* visible; with candidate 1 hidden and candidate 2 visible it returns candidate 2.
C5_FirstVisible_Original ==
    (site = "input" /\ rpc = "done") =>
        /\ rresult = FirstVisible
        /\ (Len(dom) >= 2 /\ dom[1] = "hidden" /\ dom[2] = "visible") => rresult = 2

\* C5 amended: getInputSelector returns the first candidate that is present and
\* visible and whose query does not raise: a visible candidate before the returned
\* one (or any, when null is returned) was queried and its query raised; with
\* candidate 1 hidden and candidate 2 visible it never returns candidate 1 and
\* returns candidate 2 when the query for candidate 2 does not raise.
C5_FirstVisible ==
    (site = "input" /\ rpc = "done") =>
        /\ rresult > 0 => (dom[rresult] = "visible" /\ QueryReturned(rresult))
        /\ \A c \in Candidates :
              (dom[c] = "visible" /\ BeforeResult(c)) =>
                  (queried[c] = 1 /\ ~QueryReturned(c))
        /\ (Len(dom) >= 2 /\ dom[1] = "hidden" /\ dom[2] = "visible") =>
              /\ rresult # 1
              /\ QueryReturned(2) => rresult = 2

C5_Witness ==
    /\ site = "input"
    /\ rpc = "done"
    /\ Len(dom) >= 2
    /\ dom[1] = "hidden"
    /\ dom[2] = "visible"
    /\ QueryReturned(1)
    /\ rresult = 2

C7_ShortCircuit ==
    /\ \A n \in 1..Len(log) :
          (log[n].ev = "call" /\ log[n].out = Ok(TRUE)) => n = Len(log)
    /\ \A c \in Candidates :
          /\ queried[c] <= 1
          /\ queried[c] = 1 => \A d \in 1..(c - 1) : queried[d] = 1
    /\ \A n \in 1..(Len(log) - 1) : log[n].cand <= log[n + 1].cand
    /\ (rpc = "done" /\ rresult > 0) =>
          /\ \A c \in Candidates : queried[c] = IF c <= rresult THEN 1 ELSE 0
          /\ \A n \in 1..Len(log) : log[n].cand <= rresult

C7_Witness ==
    /\ rpc = "done"
    /\ Len(dom) = 3
    /\ rresult = 2
    /\ dom[3] = "visible"
    /\ queried = <<1, 1, 0>>

\* C8: a resolver never throws; when no query reported a match it returns null
\* after querying every candidate; a candidate whose query raised is followed by
\* the query of the next candidate.
C8_NeverThrows ==
    /\ rpc # "threw"
    /\ (rpc = "done" /\ \A n \in 1..Len(log) : log[n].out # Ok(TRUE)) =>
          /\ rresult = 0
          /\ \A c \in Candidates : queried[c] = 1
    /\ rpc = "done" =>
          \A c \in Candidates :
              (queried[c] = 1 /\ ~QueryReturned(c) /\ c < Len(dom)) => queried[c + 1] = 1

C8_Witness ==
    /\ site = "input"
    /\ rpc = "done"
    /\ rresult = 2
    /\ \E n \in 1..Len(log) :
          log[n].ev = "probe" /\ log[n].cand = 1 /\ log[n].out.kind = "err"

-----------------------------------------------------------------------------
(* Properties of the splitter *)

SplitDone == spc \in {"done", "threw"}

\* the word that starts at position p of s: the run of \w from p on
wordAt(s, p) ==
    SubSeq(s, p, CHOOSE e \in p..Len(s) :
                     /\ \A q \in p..e : isWordChar(s[q])
                     /\ (e = Len(s) \/ ~isWordChar(s[e + 1])))

\* the word tokens of s, in order
Tokens(s) ==
    [k \in 1..matchCount(s) |->
        wordAt(s, CHOOSE p \in wordStarts(s) :
                      Cardinality({q \in wordStarts(s) : q <= p}) = k)]

\* the word tokens of the segments, segment after segment
RECURSIVE TokensOfParts(_)
TokensOfParts(ps) ==
    IF ps = <<>> THEN <<>> ELSE Tokens(Head(ps)) \o TokensOfParts(Tail(ps))

\* C9: for a text of at most limit words the splitting ends with exactly one
\* segment, the trimmed text.
C9_SingleSegment ==
    (SplitDone /\ matchCount(trim(text)) <= limit) =>
        (spc = "done" /\ parts = <<trim(text)>>)

\* C10: for a text of more than limit words, the word tokens of the segments,
\* read in order, are the word tokens of the text: none dropped, duplicated or
\* split across two segments.
C10_TokensPreserved ==
    (spc = "done" /\ matchCount(trim(text)) > limit) =>
        TokensOfParts(parts) = Tokens(text)

\* C11: every segment produced has at most limit words, counted as the loop
\* condition counts them (the matches of /(\w+)/g).
C11_SegmentWithinLimit ==
    \A k \in 1..Len(parts) : matchCount(parts[k]) <= limit

\* C12: each iteration of the splitting loop removes at least one character and
\* at least one word from the remaining text, also when the extracted prefix
\* contains no period (so the loop terminates).
C12_IterationConsumes ==
    [][(spc = "loop" /\ spc' = "loop" /\ parts' # parts) =>
          (Len(str') < Len(str) /\ matchCount(str') < matchCount(str))]_vars

\* the result C13 states for truncate(s, n): the word-window prefix cut back to
\* and including its last period, the whole prefix when it contains no period
statedTruncate(s, n) ==
    IF lastPeriod(firstMatch(s, n)) = 0
      THEN firstMatch(s, n)
      ELSE sliceTo(firstMatch(s, n), lastPeriod(firstMatch(s, n)))

\* C13: the segment an iteration pushes is truncate's stated result, trimmed:
\* the prefix cut back to its last period, or the untruncated, non-empty prefix
\* when the prefix contains no period.
C13_TruncateResult ==
    [][(spc = "loop" /\ spc' = "loop" /\ parts' # parts) =>
          /\ parts'[Len(parts')] = trim(statedTruncate(str, limit))
          /\ (lastPeriod(firstMatch(str, limit)) = 0 => parts'[Len(parts')] # <<>>)]_vars

-----------------------------------------------------------------------------
(* Properties of the top-level calls *)

\* the promise of the call has settled
CallSettled == cpc = "settled"

\* the log entries of one kind of step
Steps(name) == {k \in 1..Len(log) : log[k].ev = name}

\* C14: in paraphraser and translator, once the browser was launched, whichever
\* way the call ends, browser.close() has been called exactly once when the
\* promise settles, and a failure of close() does not reject it.
C14_TeardownGuaranteed ==
    (tool \in {"paraphraser", "translator"} /\ CallSettled /\ launched > 0) =>
        (closes = 1 /\ settled # Rejected)

\* some step of the given kinds has ended with the given outcome
StepEnded(names, outs) ==
    \E k \in 1..Len(log) : log[k].ev \in names /\ log[k].out \in outs

\* a step of one of the kinds C15 lists has failed: splitting, browser launch,
\* navigation, element resolution, injection, submission, extraction, teardown
ListedFailure ==
    \/ spc = "threw"
    \/ StepEnded({"launch", "newPage", "viewport", "navigate", "inject", "click",
                  "detect", "extract", "close"}, {"failed"})
    \/ StepEnded({"input", "button"}, {"missing"})
    \/ StepEnded({"extract"}, {"empty"})

\* a failure that ends the call: an error that reaches the catch block, an input
\* that is not found, an output that is not read, and in paraphraser and quillbot
\* a submit control that is not found or a submission that is not detected
FatalFailure ==
    \/ spc = "threw"
    \/ StepEnded({"launch", "newPage", "viewport", "navigate", "init", "refresh",
                  "inject", "extract"}, {"failed"})
    \/ StepEnded({"input"}, {"missing"})
    \/ StepEnded({"extract"}, {"empty"})
    \/ /\ tool # "translator"
       /\ \/ StepEnded({"button"}, {"missing"})
          \/ StepEnded({"click", "detect"}, {"failed"})

\* C15 as stated: the promise is never rejected, and it resolves to null whenever
\* one of the listed steps has failed, teardown included.
C15_NeverRaises_Original ==
    /\ settled # Rejected
    /\ (CallSettled /\ ListedFailure) => settled = Null

\* C15: the promise of a top-level call is never rejected; it resolves to null
\* whenever a failure ends the call (FatalFailure). A failing close() is logged
\* and leaves the value as it was, and in translator a missing submit control or
\* an undetected submission is followed by the Enter key.
C15_NeverRaises ==
    /\ settled # Rejected
    /\ (CallSettled /\ FatalFailure) => settled = Null

\* an injection failed, close() failed too, and the promise resolved to null
C15_Witness ==
    /\ CallSettled
    /\ StepEnded({"inject"}, {"failed"})
    /\ StepEnded({"close"}, {"failed"})
    /\ settled = Null

\* the processing of segment i has failed: an exception, a submit control that
\* is not found, a submission that is not detected, or an empty output
SegmentFailed(i) ==
    \E k \in 1..Len(log) :
        /\ log[k].seg = i
        /\ \/ log[k].ev \in {"refresh", "inject", "click", "detect"} /\ log[k].out = "failed"
           \/ log[k].ev = "button" /\ log[k].out = "missing"
           \/ log[k].ev = "extract" /\ log[k].out = "empty"

\* segment i has produced a non-empty output
SegmentProduced(i) ==
    \E k \in 1..Len(log) :
        log[k].ev = "extract" /\ log[k].seg = i /\ log[k].out = "ok"

\* C16: in paraphraser and quillbot, if the processing of some segment fails the
\* call returns null, whatever the earlier segments produced; a result other than
\* null is returned only after every segment has produced a non-empty output.
C16_NoPartialSuccess ==
    (tool # "translator" /\ CallSettled) =>
        /\ (\E i \in 1..Len(parts) : SegmentFailed(i)) => settled = Null
        /\ settled # Null => (parts # <<>> /\ \A i \in 1..Len(parts) : SegmentProduced(i))

\* the second segment fails after the first has produced its output, and the
\* call has returned null
C16_Witness ==
    /\ tool = "paraphraser"
    /\ CallSettled
    /\ SegmentProduced(1)
    /\ SegmentFailed(2)
    /\ output # <<>>
    /\ settled = Null

\* the log entries of one kind of step, with one outcome, for segment i
SegmentSteps(name, out, i) ==
    {k \in 1..Len(log) : log[k].ev = name /\ log[k].out = out /\ log[k].seg = i}

\* the output extracted for segment i
SegmentOutput(i) ==
    log[CHOOSE k \in 1..Len(log) : log[k].ev = "extract" /\ log[k].seg = i].val

\* the outputs of segments 1..n, separated by single spaces
RECURSIVE Joined(_)
Joined(n) ==
    IF n = 0 THEN <<>>
    ELSE IF n = 1 THEN SegmentOutput(1)
    ELSE Joined(n - 1) \o <<" ">> \o SegmentOutput(n)

\* C17: in paraphraser and quillbot the segments are processed one after the
\* other in input order: a segment is injected only after the one before it was
\* submitted and its output extracted; of a call that returns a result, each
\* segment was submitted (its submit control clicked) exactly once, and the
\* result is the outputs of the segments in order, separated by single spaces.
C17_SequentialSegments ==
    tool # "translator" =>
        /\ \A k \in Steps("inject") :
              log[k].seg > 1 =>
                 \E j \in 1..(k - 1), c \in 1..(k - 1) :
                    /\ c < j
                    /\ log[c] = StepEv("click", log[k].seg - 1, "clicked")
                    /\ log[j].ev = "extract" /\ log[j].seg = log[k].seg - 1
                    /\ log[j].out = "ok"
        /\ (CallSettled /\ settled # Null) =>
              /\ \A i \in 1..Len(parts) :
                    Cardinality(SegmentSteps("click", "clicked", i)) = 1
              /\ settled = Joined(Len(parts))

-----------------------------------------------------------------------------
(* Properties of inputString *)

\* getInputContent has returned and inputContent is assigned
ReadBackReturned == icontent # NotRead

\* inputString has returned without a step of the paste fallback
FallbackSkipped == ipc = "returned" /\ Steps("paste") = {}

\* the paste fallback is under way or has been attempted
FallbackAttempted == ipc = "paste" \/ Steps("paste") # {}

\* the trimmed length of the read-back content (null has none: 0)
ReadBackLength == IF icontent = Null THEN 0 ELSE Len(trim(icontent))

\* the read-back content is at least 90% of the intended text, in trimmed length
AtLeastNinetyPercent == 10 * ReadBackLength >= 9 * Len(trim(itext))

\* C18 as stated: after the read-back, the paste fallback is skipped if and only
\* if the trimmed length of the content read back is at least 90% of the
\* trimmed length of the intended text.
C18_Threshold_Original ==
    ReadBackReturned => (FallbackSkipped <=> AtLeastNinetyPercent)

\* C18: after the read-back, the paste fallback is skipped if and only if the
\* content read back is a non-empty string whose trimmed length is at least 90%
\* of the trimmed length of the intended text (95% passes, 50% falls back; a
\* null or empty content falls back also when the intended text is blank).
C18_Threshold ==
    ReadBackReturned =>
        (FallbackSkipped <=>
            (icontent # Null /\ icontent # <<>> /\ AtLeastNinetyPercent))

\* a read-back of 19 characters for a text of 20 (95%) has passed without the
\* fallback
C18_Witness ==
    /\ Len(trim(itext)) = 20
    /\ ReadBackReturned
    /\ ReadBackLength = 19
    /\ FallbackSkipped

\* C19: inputString throws only when every method of injection has failed: not
\* on a failure of the direct assignment or of the activation steps before the
\* paste fallback was attempted, and not on a failure of the paste fallback alone.
C19_BestEffort ==
    ipc = "threw" =>
        /\ StepEnded({"assign", "click", "end", "space"}, {"failed"})
        /\ StepEnded({"paste", "pasteClick", "pasteEnd", "pasteSpace"}, {"failed"})

\* the read-back was made and did not confirm the text: the operation failed, or
\* the content is null, empty or too short
Unconfirmed ==
    /\ Steps("read") # {}
    /\ \/ StepEnded({"read"}, {"failed", "ignored"})
       \/ icontent = Null
       \/ icontent = <<>>
       \/ ~AtLeastNinetyPercent

\* C20: whenever the read-back does not confirm the text (too short, empty,
\* null, or the read-back itself failing), inputString goes on to the paste
\* fallback and does not throw.
C20_UnconfirmedFallsBack ==
    Unconfirmed => (ipc # "threw" /\ FallbackAttempted)
-----------------------------------------------------------------------------
(* submitForm: the detection of the completion and the click *)

\* the events of the k-th approach of the detection
StrategyEvents(k) ==
    {i \in 1..Len(log) : log[i].seg = k /\ log[i].ev \in {"output", "settle", "content", "appear", "disappear"}}

\* the k-th approach has succeeded: the output was visible and the delay has
\* passed, or the indicator has appeared and disappeared
StrategyOk(k) ==
    \E i \in StrategyEvents(k) :
        \/ log[i].ev = "settle"
        \/ log[i].ev = "disappear" /\ log[i].out = "ok"

\* the k-th approach has failed: one of its waits has thrown
StrategyErr(k) ==
    \E i \in StrategyEvents(k) : log[i].out \in PageMessages

\* waitForFormSubmission was called and has returned
DetectionReturned ==
    /\ ftool \in {"paraphraser", "quillbot"}
    /\ isClicked = "true"
    /\ fpc = "returned"

\* C21: waitForFormSubmission returns true if and only if one of its two
\* approaches succeeds: the second one is attempted only after the first has
\* failed, false is returned exactly when both have failed, and the function
\* returns a boolean however its waits end (it never throws).
C21_EitherStrategy ==
    /\ \A i \in StrategyEvents(2) :
          ftool \in {"paraphraser", "quillbot"} =>
              \E j \in StrategyEvents(1) : j < i /\ log[j].out \in PageMessages
    /\ DetectionReturned =>
          /\ fresult \in {"true", "false"}
          /\ fresult = "true" <=> (StrategyOk(1) \/ StrategyOk(2))
          /\ fresult = "false" <=> (StrategyErr(1) /\ StrategyErr(2))

\* the first approach has failed and the second has succeeded: true is returned
C21_Witness ==
    /\ DetectionReturned
    /\ StrategyErr(1)
    /\ StrategyOk(2)
    /\ fresult = "true"

\* the names of the events of the two kinds of approach
IndicatorEvents == {"appear", "disappear"}

OutputEvents == {"output", "settle"}

\* the events of the k-th approach are all of the given kind
StrategyIs(k, names) == \A i \in StrategyEvents(k) : log[i].ev \in names

\* C22 as stated: in every tool the loading indicator is the first approach
\* and the visibility of the output the second, and a detection that has
\* returned is not entered again.
C22_IndicatorFirst_Original ==
    [][/\ (StrategyIs(1, IndicatorEvents) /\ StrategyIs(2, OutputEvents))'
       /\ fpc = "returned" => UNCHANGED <<fvars, log>>]_vars

\* C22: the detection of a segment goes from the click through the first
\* approach and, after its failure, the second one to a return of true or
\* false; in quillbot (src/index.js) the first approach is the loading
\* indicator and the second the visibility of the output followed by the
\* delay, in paraphraser the first approach is the visibility of the output
\* followed by the delay and the second the loading indicator; once
\* waitForFormSubmission has returned, no wait of the detection is made again.
C22_OrderPerTool ==
    [][/\ (ftool = "quillbot" =>
              StrategyIs(1, IndicatorEvents) /\ StrategyIs(2, OutputEvents))'
       /\ (ftool = "paraphraser" =>
              StrategyIs(1, OutputEvents) /\ StrategyIs(2, IndicatorEvents))'
       /\ (StrategyEvents(1) \cup StrategyEvents(2) # {} => isClicked = "true")'
       /\ fpc = "returned" => UNCHANGED <<fvars, log>>]_vars

\* paraphraser has returned true from its second approach, the loading
\* indicator, after the wait for the output had failed
C22_Witness ==
    /\ ftool = "paraphraser"
    /\ fpc = "returned"
    /\ fresult = "true"
    /\ \E i \in StrategyEvents(1) : log[i].ev = "output" /\ log[i].out \in PageMessages
    /\ \E i \in StrategyEvents(2) : log[i].ev = "disappear" /\ log[i].out = "ok"

\* the click has ended with the given outcome
ClickEnded(out) == \E i \in 1..Len(log) : log[i].ev = "click" /\ log[i].out = out

\* C23: clickParaphraseButton and clickTranslateButton return true only if a
\* button was found and clicked; when the selector resolves to no element at
\* the time of the click, they return false and submitForm returns false without
\* a wait of the detection.
C23_ClickedOnlyIfFound ==
    /\ isClicked = "true" => ClickEnded("clicked")
    /\ ClickEnded("missing") =>
          /\ isClicked = "false"
          /\ StrategyEvents(1) = {}
          /\ fpc = "returned" => fresult = "false"
-----------------------------------------------------------------------------
(* saveHTMLForDebug *)

\* the reads of the page made in the call under way
PageReads == {i \in 1..Len(log) : log[i].ev = "call"}

\* the operations on the file system made in the call under way
FileEvents == {i \in 1..Len(log) : log[i].ev \in {"mkdir", "write"}}

\* C24: saveHTMLForDebug never propagates a failure to its caller (after a
\* failure of the page read, of the directory or of the file it returns), it
\* reads the page at most once, and when dev mode is off or the page is absent
\* it accesses neither the page nor the file system.
C24_SnapshotContained ==
    /\ dpc # "threw"
    /\ site = "snapshot" => Cardinality(PageReads) <= 1
    /\ site = "snapshot" /\ (~dIsDev \/ ~dPage) =>
          /\ log = <<>>
          /\ dpc \in {"called", "returned"}

\* a call in dev mode has read the page once and has returned after the file
\* could not be written
C24_Witness ==
    /\ dpc = "returned"
    /\ dIsDev
    /\ dPage
    /\ Cardinality(PageReads) = 1
    /\ \E i \in FileEvents : log[i].ev = "write" /\ log[i].out.kind = "err"
\* an optional setting could not be made
SettingsIgnored == StepEnded({"settings"}, {"ignored"})

\* C25: the failure of an optional setting (language, mode, synonyms level;
\* source and target language) is not fatal: the call goes on to look for the
\* input, and it returns null only if a failure that ends the call has happened
\* as well.
C25_SettingsNonFatal ==
    SettingsIgnored =>
        /\ cpc # "settings" => (cpc = "input" \/ Steps("input") # {})
        /\ (CallSettled /\ settled = Null) => FatalFailure

\* a call whose settings could not be made has returned a result
C25_Witness ==
    /\ SettingsIgnored
    /\ CallSettled
    /\ settled # Null
    /\ settled # Rejected
\* the call has returned a result
CallSucceeded == CallSettled /\ settled # Null /\ settled # Rejected

\* C26: once the browser was launched, the delay before browser.close() happens
\* if and only if the call is in dev mode (headless false or 'new') and has not
\* succeeded; a successful call closes the browser without the delay, and in
\* every failed call in dev mode the browser is closed after the delay.
C26_HoldOpenOnFailure ==
    (CallSettled /\ launched > 0) =>
        /\ Steps("hold") # {} <=> (devMode(headless) /\ ~CallSucceeded)
        /\ (devMode(headless) /\ ~CallSucceeded) =>
              \E h \in Steps("hold"), c \in Steps("close") : h < c
\* C27: headless defaults to 'new': once setupBrowser has defaulted the option,
\* the dev-mode flag the call uses for its snapshots is the one a call with
\* headless 'new' has, and it agrees with the flag closeBrowser computes at
\* teardown from options.headless.
C27_DefaultIsNew ==
    Steps("launch") # {} => isDev = devMode(headless)
\* no target language is given, or the one given has no code
NoTargetLanguage ==
    targetLanguage = Null \/ getLanguageCode(targetLanguage) = "null"

\* C28: the target language is required: a translator call without a target
\* language, or with one that has no language code, returns no translation;
\* the source language is optional, and the URL has sl=auto when none is given.
C28_TargetRequired ==
    tool = "translator" =>
        /\ (CallSettled /\ NoTargetLanguage) => settled = Null
        /\ (Steps("navigate") # {} /\ sourceLanguage = Null) => urlParams.sl = "auto"
\* C29 as stated: in a paraphraser or translator call that has launched a
\* browser, the browser was launched once and exactly one page was opened in it.
C29_OneSession_Original ==
    (tool \in {"paraphraser", "translator"} /\ CallSettled /\ launched > 0) =>
        (launched = 1 /\ pages = 1)

\* C29: within one paraphraser or translator call the browser is launched at
\* most once and at most one page is opened in it, whatever retries or
\* re-acquisitions happen; exactly one page is open once setupBrowser has
\* returned the session (no page when browser.newPage() has failed).
C29_OneSession ==
    tool \in {"paraphraser", "translator"} =>
        /\ launched <= 1
        /\ pages <= launched
        /\ page => (launched = 1 /\ pages = 1)

\* a paraphraser call has re-acquired the input for its second segment and has
\* settled with one browser launched and one page opened
C29_Witness ==
    /\ tool = "paraphraser"
    /\ CallSettled
    /\ \E k \in Steps("refresh") : log[k].seg = 2
    /\ launched = 1
    /\ pages = 1
-----------------------------------------------------------------------------
(* Properties of two calls in flight together *)

\* the browsers and the pages there are
Browsers == 1..Len(world.launchedBy)

Pages == 1..Len(world.pageIn)

\* C30: under any interleaving of two concurrent top-level calls the calls never
\* share a Session: the browser a call holds is one it has launched itself, the
\* page it holds is in that browser, no page is operated on by a call other than
\* the one whose browser it is in, and no browser is closed by a call other than
\* the one that launched it.
C30_NoSharedSession ==
    site = "concurrent" =>
        /\ \A c \in Callers :
              /\ inflight[c].browser # 0 => world.launchedBy[inflight[c].browser] = c
              /\ inflight[c].page # 0 => world.pageIn[inflight[c].page] = inflight[c].browser
        /\ \A c, d \in Callers :
              (c # d /\ inflight[c].browser # 0) => inflight[c].browser # inflight[d].browser
        /\ \A p \in Pages : world.usedBy[p] \subseteq {world.launchedBy[world.pageIn[p]]}
        /\ \A b \in Browsers : world.closedBy[b] \subseteq {world.launchedBy[b]}

\* the two calls have launched, worked and settled, the second having launched
\* its browser before the first opened its page, and each has closed its browser
C30_Witness ==
    /\ site = "concurrent"
    /\ \A c \in Callers : inflight[c].pc = "settled" /\ inflight[c].ops = MaxOps
    /\ world.launchedBy = <<1, 2>>
    /\ world.pageIn = <<2, 1>>
    /\ world.usedBy = <<{2}, {1}>>
    /\ world.closedBy = <<{1}, {2}>>
-----------------------------------------------------------------------------
(* Properties of the resolvers on a list of any length *)

\* C31: a resolver run on an empty list of candidates returns null at once,
\* without a query of the page and without raising; and every list of
\* candidates in the code has at least one selector.
C31_EmptyListNotFound ==
    /\ (site \in {"input", "button"} /\ Len(dom) = 0) =>
          /\ rpc \in {"next", "done"}
          /\ rresult = 0
          /\ log = <<>>
          /\ xpc = "idle"
    /\ \A k \in 1..Len(CandidateLists) : CandidateLists[k].len >= 1

\* the resolver has returned null for the empty list
C31_Witness ==
    /\ site \in {"input", "button"}
    /\ Len(dom) = 0
    /\ rpc = "done"
    /\ rresult = 0
    /\ log = <<>>
NoWord == matchCount(text) = 0

\* C33: paraphraser called with a text that has no word character (empty, or
\* white space and punctuation only) returns null without launching a browser:
\* nothing is closed and nothing is held open, whatever headless is.
C33_NoWordNoBrowser ==
    (tool = "paraphraser" /\ NoWord) =>
        /\ launched = 0
        /\ closes = 0
        /\ Steps("hold") = {} /\ Steps("close") = {}
        /\ CallSettled => settled = Null

\* paraphraser has returned null for a text of a space and a period, with
\* headless not given, and no browser was launched
C33_Witness ==
    /\ tool = "paraphraser"
    /\ text = <<" ", ".">>
    /\ headless = "unset"
    /\ CallSettled
    /\ settled = Null
    /\ launched = 0
\* C34: with a retry budget <= 0 the operation is never invoked and the call
\* throws the generic 'Operation failed after retries' error; with a budget >= 1
\* a finished call has invoked the operation at least once, and the loop is
\* never left by its condition, so that the throw after it is not reached.
C34_BudgetBoundary ==
    (site = "direct") =>
        /\ xretries <= 0 =>
              /\ log = <<>>
              /\ xpc \in {"loop", "threw"}
              /\ xpc = "threw" => xresult = Err(FailedAfterRetries)
        /\ xretries >= 1 =>
              /\ ExecDone => Len(Calls) >= 1
              /\ xpc = "loop" => loopCondition(xi, xretries)
              /\ ~(xpc = "threw" /\ xresult = Err(FailedAfterRetries))

C34_Witness ==
    /\ site = "direct"
    /\ xretries = 0
    /\ xpc = "threw"
    /\ xresult = Err(FailedAfterRetries)
    /\ Calls = <<>>

\* step name of segment i ended with out at position k of the log
StepAt(k, name, out, i) == log[k].ev = name /\ log[k].out = out /\ log[k].seg = i

\* C35: whenever the output of a segment is read, the steps of that segment have
\* happened in the order clear input, inject text, resolve submit control,
\* click, detect completion (returned true), extract; and whenever a text is
\* injected, the input of that segment has been cleared before.
C35_FixedStepOrder ==
    (site = "call") =>
        /\ \A e \in Steps("extract") :
              \E c, n, b, k, d \in 1..e :
                  /\ c < n /\ n < b /\ b < k /\ k < d /\ d < e
                  /\ StepAt(c, "clear", "ok", log[e].seg)
                  /\ StepAt(n, "inject", "ok", log[e].seg)
                  /\ StepAt(b, "button", "ok", log[e].seg)
                  /\ StepAt(k, "click", "clicked", log[e].seg)
                  /\ StepAt(d, "detect", "ok", log[e].seg)
        /\ \A n \in Steps("inject") :
              \E c \in 1..n : StepAt(c, "clear", "ok", log[n].seg)
\* translator: what the three reads of the output can give
OutputSources == RawOutputs \cup {Raised}

\* a read that gives nothing (it threw, no element, blank text) or the input text
NothingOrInput(raw, input) ==
    raw \in {Raised, Null} \/ trim(raw) = <<>> \/ trim(raw) = trim(input)

\* C36: every step of a translator call leads to a state in which a result that
\* is not null is, trimmed, neither empty nor the trimmed input text; in which,
\* when the output is about to be read, reads that each give the input text or
\* nothing end in a content that is not accepted; and a step that makes the call
\* return null leaves the success marker as it was.
C36_NoEchoedResult ==
    [][tool = "translator" =>
          /\ (settled' \notin {Pending, Null}) =>
                /\ settled' # Rejected
                /\ trim(settled') # <<>>
                /\ trim(settled') # trim(text)
          /\ cpc' = "extract" =>
                \A primary \in OutputSources, alternative \in OutputSources,
                   direct \in OutputSources \ {Raised} :
                   ( /\ NothingOrInput(primary, text)
                     /\ NothingOrInput(alternative, text)
                     /\ NothingOrInput(direct, text) ) =>
                      ~goodOutput(translatorRead(primary, alternative, direct, text), text)
          /\ completion' = Null => success' = success]_vars

C36_Witness ==
    /\ tool = "translator"
    /\ text = <<"a">>
    /\ CallSettled
    /\ settled = Null
    /\ \E e \in Steps("extract") : log[e].out = "empty"
    /\ ~success

\* Number(value) for the values of the model, by its place relative to the range
\* of the slider: "nan" if the value is not a numeric string (white space around
\* it trimmed, a sign, digits, an exponent), else "below" 0, "above" MaxLevel or
\* "within"
numberClass(s) ==
    LET t == trim(s)
        negative == t # <<>> /\ Head(t) = "-"
        body == IF negative THEN Tail(t) ELSE t
        m == leadingDigits(body)
        rest == SubSeq(body, Len(m) + 1, Len(body))
        hasExp == rest # <<>> /\ Head(rest) = "e"
        expPart == IF hasExp THEN Tail(rest) ELSE <<>>
        expNeg == expPart # <<>> /\ Head(expPart) = "-"
        expDigits == IF expNeg THEN Tail(expPart) ELSE expPart
        wellFormed ==
            /\ m # <<>>
            /\ \/ rest = <<>>
               \/ hasExp /\ expDigits # <<>> /\ leadingDigits(expDigits) = expDigits
        mant == decimal(m)
        e == decimal(expDigits)
        above ==
            IF ~hasExp THEN mant > MaxLevel
            ELSE IF expNeg THEN e <= Len(m) /\ mant > MaxLevel * 10^e
            ELSE e >= 3 \/ mant * 10^e > MaxLevel
    IN  IF t = <<>> THEN "within"
        ELSE IF ~wellFormed THEN "nan"
        ELSE IF mant = 0 THEN "within"
        ELSE IF negative THEN "below"
        ELSE IF above THEN "above"
        ELSE "within"

\* C37: the value selectSynonymsLevel passes to the page is an integer of
\* 0..100; it is 0 for a value below 0, 100 for a value above 100, and 0 for a
\* value that is not numeric.
C37_ClampedLevel ==
    (site = "synonyms") =>
        \A k \in Steps("evaluate") :
            /\ log[k].val \in 0..MaxLevel
            /\ numberClass(value) = "below" => log[k].val = 0
            /\ numberClass(value) = "above" => log[k].val = MaxLevel
            /\ numberClass(value) = "nan" => log[k].val = 0

=============================================================================
